---------------------------- MODULE Spec2Model ----------------------------
(***************************************************************************)
(* The CQL binary protocol server of transport/server.cc: the accept loop, *)
(* the per-connection read/dispatch/write loop, the frame header codec and *)
(* the wire-type readers and writers, at byte level.                       *)
(*                                                                         *)
(* An action is one continuation of the code: the code between two points  *)
(* where the task suspends (accept, read_exactly, write, flush).           *)
(* assert(), abort() and a crash end the whole process: proc = "aborted".  *)
(***************************************************************************)
EXTENDS Integers, Sequences, FiniteSets, TLC

(***************************************************************************)
(* Bounds of the model.                                                    *)
(***************************************************************************)
\* frames the client may send on the connection of specification Spec
MaxFrames == 2
\* connections the clients open under specification SpecServer
MaxConns == 2
\* frames the clients may send, all together, under specification SpecServer
MaxServerFrames == 2
\* the keys operations of the flush_queue are started with, and its waiters
MaxKey == 2
MaxWaiters == 2

(***************************************************************************)
(* enum class cql_binary_opcode                                            *)
(***************************************************************************)
ERROR == 0
STARTUP == 1
READY == 2
AUTHENTICATE == 3
CREDENTIALS == 4
OPTIONS == 5
SUPPORTED == 6
QUERY == 7
RESULT == 8
PREPARE == 9
EXECUTE == 10
REGISTER == 11
EVENT == 12
BATCH == 13
AUTH_CHALLENGE == 14
AUTH_RESPONSE == 15
AUTH_SUCCESS == 16

\* enum class cql_binary_error (the values the handlers could send)
SERVER_ERROR == 0
PROTOCOL_ERROR == 10
SYNTAX_ERROR == 8192

(***************************************************************************)
(* Bytes and byte strings.  A byte is 0..255, a buffer a sequence of       *)
(* bytes.                                                                  *)
(***************************************************************************)
Take(s, n) == SubSeq(s, 1, IF n < Len(s) THEN n ELSE Len(s))
Drop(s, n) == SubSeq(s, (IF n < Len(s) THEN n ELSE Len(s)) + 1, Len(s))

\* static_cast to uint8_t / int16_t of a value
U8(n) == n % 256
I16(n) == LET u == n % 65536 IN IF u >= 32768 THEN u - 65536 ELSE u

\* A 32 bit value is held as the int32_t with its bits: a uint32_t of 2^31 or
\* more is the negative number with the same four bytes.
Int32Of(b1, b2, b3, b4) ==
    (((IF b1 >= 128 THEN b1 - 256 ELSE b1) * 256 + b2) * 256 + b3) * 256 + b4

\* htons / htonl followed by the write of the value's bytes
htons(n) == LET u == n % 65536 IN <<u \div 256, u % 256>>
htonl(n) == <<(n \div 16777216) % 256, (n \div 65536) % 256, (n \div 256) % 256, n % 256>>

\* read_exactly(n) on the bytes s: n bytes, or what there is (n as uint32_t)
ReadExactly(s, n) == IF n < 0 THEN s ELSE Take(s, n)
Unread(s, n) == IF n < 0 THEN <<>> ELSE Drop(s, n)

\* sstring literals of the code, as their bytes (ASCII)
S_CQL_VERSION == <<67, 81, 76, 95, 86, 69, 82, 83, 73, 79, 78>>
S_COMPRESSION == <<67, 79, 77, 80, 82, 69, 83, 83, 73, 79, 78>>
S_3_0_0 == <<51, 46, 48, 46, 48>>
S_3_2_0 == <<51, 46, 50, 46, 48>>
S_snappy == <<115, 110, 97, 112, 112, 121>>

\* std::less<sstring>: lexicographic order on the bytes
RECURSIVE StrLess(_, _)
StrLess(a, b) ==
    IF b = <<>> THEN FALSE
    ELSE IF a = <<>> THEN TRUE
    ELSE IF a[1] # b[1] THEN a[1] < b[1]
    ELSE StrLess(Tail(a), Tail(b))

(***************************************************************************)
(* cql_server::connection: the frame header.                               *)
(***************************************************************************)
\* fault-injection variant of frame_size: the size of cql_binary_frame_v3 throughout
FrameSizeV3(v) == 9

frame_size(v) == IF v < 3 THEN 8 ELSE 9

\* parse_frame's result: the header, or the exception it throws, or abort()
ParseFrameNoSizeCheck(v, buf) ==
    IF v \in {1, 2} THEN
        [st |-> IF buf[1] # v THEN "bad_cql_protocol_version" ELSE "ok",
         version |-> buf[1], flags |-> buf[2], stream |-> buf[3],
         opcode |-> buf[4],
         length |-> Int32Of(buf[5], buf[6], buf[7], buf[8])]
    ELSE IF v \in {3, 4} THEN
        [st |-> IF buf[1] # v THEN "bad_cql_protocol_version" ELSE "ok",
         version |-> buf[1], flags |-> buf[2], stream |-> buf[3] * 256 + buf[4],
         opcode |-> buf[5],
         length |-> Int32Of(buf[6], buf[7], buf[8], buf[9])]
    ELSE [st |-> "abort", version |-> 0, flags |-> 0, stream |-> 0,
          opcode |-> 0, length |-> 0]

BadFrame(st) ==
    [st |-> st, version |-> 0, flags |-> 0, stream |-> 0, opcode |-> 0, length |-> 0]

\* fault-injection variant of parse_frame: the version is not compared
ParseFrameAnyVersion(v, buf) ==
    IF Len(buf) # frame_size(v) THEN BadFrame("cql_frame_error")
    ELSE [ParseFrameNoSizeCheck(v, buf) EXCEPT !.st = "ok"]

parse_frame(v, buf) ==
    IF Len(buf) # frame_size(v) THEN BadFrame("cql_frame_error")
    ELSE ParseFrameNoSizeCheck(v, buf)

(***************************************************************************)
(* cql_server::response: a stream id, an opcode and the body written so    *)
(* far; the write_* members append to the body.                            *)
(***************************************************************************)
response(stream, opcode) == [stream |-> stream, opcode |-> opcode, body |-> <<>>]

write_int(r, n) == [r EXCEPT !.body = @ \o htonl(n)]
write_short(r, n) == [r EXCEPT !.body = @ \o htons(n)]
\* assert(s.size() < std::numeric_limits<int16_t>::max()) in write_string
write_string_assert(s) == Len(s) < 32767

\* write_string, when its assert holds
write_string(r, s) == [write_short(r, Len(s)) EXCEPT !.body = @ \o s]

\* assert(s.size() < std::numeric_limits<int32_t>::max()) in write_long_string
write_long_string_assert(s) == Len(s) < 2147483647

\* write_long_string, when its assert holds
write_long_string(r, s) == [write_int(r, Len(s)) EXCEPT !.body = @ \o s]

\* std::map<sstring, sstring> as its pairs in iteration order: by key, ascending
RECURSIVE map_in_order(_)
map_in_order(m) ==
    IF m = {} THEN <<>>
    ELSE LET p == CHOOSE q \in m : \A o \in m \ {q} : StrLess(q[1], o[1])
         IN <<p>> \o map_in_order(m \ {p})

RECURSIVE write_pairs(_, _)
write_pairs(r, ps) ==
    IF ps = <<>> THEN r
    ELSE write_pairs(write_string(write_string(r, Head(ps)[1]), Head(ps)[2]), Tail(ps))

\* response::write_string_map, for a map of keys and values its asserts let through
write_string_map(r, m) == write_pairs(write_short(r, Cardinality(m)), map_in_order(m))

RECURSIVE write_strings(_, _)
write_strings(r, l) ==
    IF l = <<>> THEN r ELSE write_strings(write_string(r, Head(l)), Tail(l))

write_string_list(r, l) == write_strings(write_short(r, Len(l)), l)


(***************************************************************************)
(* std::multimap<sstring, sstring>: a sequence of <<key, value>> pairs in  *)
(* key order; insert() puts the pair after the pairs whose key is not      *)
(* greater (the upper bound of the key).                                   *)
(***************************************************************************)
\* fault-injection variant of multimap_insert: the pairs stay in insertion order
MultimapAppend(mm, p) == Append(mm, p)

RECURSIVE multimap_insert(_, _)
multimap_insert(mm, p) ==
    IF mm = <<>> THEN <<p>>
    ELSE IF StrLess(p[1], Head(mm)[1]) THEN <<p>> \o mm
    ELSE <<Head(mm)>> \o multimap_insert(Tail(mm), p)

\* fault-injection variant of multimap_keys: the loop steps with ++it
MultimapKeysEach(mm) == [i \in 1..Len(mm) |-> mm[i][1]]

\* the loop "it = string_map.upper_bound(it->first)": each key once, in order
RECURSIVE multimap_keys(_)
multimap_keys(mm) ==
    IF mm = <<>> THEN <<>>
    ELSE LET k == Head(mm)[1]
             IsOther(p) == p[1] # k
         IN <<k>> \o multimap_keys(SelectSeq(Tail(mm), IsOther))

\* fault-injection variant of multimap_values: the range is the whole map
MultimapValuesAll(mm, key) == [i \in 1..Len(mm) |-> mm[i][2]]

\* string_map.equal_range(key): the values of the key, in order
multimap_values(mm, key) ==
    LET IsKey(p) == p[1] = key
        ps == SelectSeq(mm, IsKey)
    IN [i \in 1..Len(ps) |-> ps[i][2]]

RECURSIVE write_multimap_entries(_, _, _)
write_multimap_entries(r, mm, keys) ==
    IF keys = <<>> THEN r
    ELSE write_multimap_entries(
             write_string_list(write_string(r, Head(keys)),
                               multimap_values(mm, Head(keys))),
             mm, Tail(keys))

write_string_multimap(r, mm) ==
    LET keys == multimap_keys(mm)
    IN write_multimap_entries(write_short(r, Len(keys)), mm, keys)

(***************************************************************************)
(* cql_server::response::make_frame and make_message.                      *)
(***************************************************************************)
\* version | 0x80, for a version below 0x80
\* fault-injection variant: the request's version byte is echoed as it came
RequestVersionEchoed(version) == version

ResponseVersion(version) == version + 128

\* fault-injection variant of make_frame: the fields are stored without htons / htonl
MakeFrameHostOrder(version, stream, opcode, length) ==
    LET l == htonl(length)
        rl == <<l[4], l[3], l[2], l[1]>>
    IN IF version \in {1, 2} THEN
           <<ResponseVersion(version), 0, U8(stream), opcode>> \o rl
       ELSE IF version \in {3, 4} THEN
           <<ResponseVersion(version), 0, htons(stream)[2], htons(stream)[1], opcode>> \o rl
       ELSE <<>>

make_frame(version, stream, opcode, length) ==
    IF version \in {1, 2} THEN
        <<ResponseVersion(version), 0, U8(stream), opcode>> \o htonl(length)
    ELSE IF version \in {3, 4} THEN
        <<ResponseVersion(version), 0>> \o htons(stream) \o <<opcode>> \o htonl(length)
    ELSE <<>>

\* make_message with the header's own bytes counted in the length field
MakeMessageFrameLength(version, r) ==
    make_frame(version, r.stream, r.opcode, Len(r.body) + frame_size(version)) \o r.body

make_message(version, r) ==
    make_frame(version, r.stream, r.opcode, Len(r.body)) \o r.body

(***************************************************************************)
(* The responses the connection builds.                                    *)
(***************************************************************************)
write_error(stream, err, msg) ==
    write_string(write_int(response(I16(stream), ERROR), err), msg)

write_ready(stream) == response(I16(stream), READY)

supported_opts ==
    multimap_insert(
        multimap_insert(
            multimap_insert(<<>>, <<S_CQL_VERSION, S_3_0_0>>),
            <<S_CQL_VERSION, S_3_2_0>>),
        <<S_COMPRESSION, S_snappy>>)

write_supported(stream) ==
    write_string_multimap(response(I16(stream), SUPPORTED), supported_opts)

(***************************************************************************)
(* cql_server::connection: the readers of the wire types.  A reader's      *)
(* result is [st, val, rest]: st = "ok" with the value and the buffer left,*)
(* st = "oob" when the code reads past the end of the buffer (it checks no *)
(* length: undefined behaviour), st = "badlen" when a negative length is   *)
(* cast to size_t for the sstring constructor.                             *)
(***************************************************************************)
Rd(st, val, rest) == [st |-> st, val |-> val, rest |-> rest]

\* int8_t n = buf[0]
read_byte(buf) ==
    IF Len(buf) < 1 THEN Rd("oob", 0, <<>>)
    ELSE Rd("ok", IF buf[1] >= 128 THEN buf[1] - 256 ELSE buf[1], Drop(buf, 1))

\* the int64_t as its two halves: the high int32_t and the low 32 bits
read_long(buf) ==
    IF Len(buf) < 8 THEN Rd("oob", 0, <<>>)
    ELSE Rd("ok", <<Int32Of(buf[1], buf[2], buf[3], buf[4]),
                    Int32Of(buf[5], buf[6], buf[7], buf[8])>>, Drop(buf, 8))

read_short(buf) ==
    IF Len(buf) < 2 THEN Rd("oob", 0, <<>>)
    ELSE Rd("ok", I16(buf[1] * 256 + buf[2]), Drop(buf, 2))

read_int(buf) ==
    IF Len(buf) < 4 THEN Rd("oob", 0, <<>>)
    ELSE Rd("ok", Int32Of(buf[1], buf[2], buf[3], buf[4]), Drop(buf, 4))

\* the sstring{buf.begin(), n} and trim_front(n) that follow a length n
ReadBytes(n, buf) ==
    IF n.st # "ok" THEN n
    ELSE IF n.val < 0 THEN Rd("badlen", <<>>, <<>>)
    ELSE IF n.val > Len(n.rest) THEN Rd("oob", <<>>, <<>>)
    ELSE Rd("ok", Take(n.rest, n.val), Drop(n.rest, n.val))

read_string(buf) == ReadBytes(read_short(buf), buf)

read_long_string(buf) == ReadBytes(read_int(buf), buf)

\* std::unordered_map<sstring, sstring>: a set of <<key, value>> pairs, one a key
map_emplace(m, k, v) ==
    IF \E p \in m : p[1] = k THEN m ELSE m \cup {<<k, v>>}

RECURSIVE read_string_map_loop(_, _, _)
read_string_map_loop(n, m, buf) ==
    IF n <= 0 THEN Rd("ok", m, buf)
    ELSE LET key == read_string(buf)
         IN IF key.st # "ok" THEN key
            ELSE LET val == read_string(key.rest)
                 IN IF val.st # "ok" THEN val
                    ELSE read_string_map_loop(n - 1, map_emplace(m, key.val, val.val),
                                              val.rest)

read_string_map(buf) ==
    LET n == read_short(buf)
    IN IF n.st # "ok" THEN n ELSE read_string_map_loop(n.val, {}, n.rest)

\* db::consistency_level
ConsistencyLevels ==
    {"ANY", "ONE", "TWO", "THREE", "QUORUM", "ALL", "LOCAL_QUORUM", "EACH_QUORUM",
     "SERIAL", "LOCAL_SERIAL", "LOCAL_ONE"}

\* wire_to_consistency: the level of a code; default: assert(0)
wire_to_consistency(v) ==
    CASE v = 0 -> Rd("ok", "ANY", <<>>)
      [] v = 1 -> Rd("ok", "ONE", <<>>)
      [] v = 2 -> Rd("ok", "TWO", <<>>)
      [] v = 3 -> Rd("ok", "THREE", <<>>)
      [] v = 4 -> Rd("ok", "QUORUM", <<>>)
      [] v = 5 -> Rd("ok", "ALL", <<>>)
      [] v = 6 -> Rd("ok", "LOCAL_QUORUM", <<>>)
      [] v = 7 -> Rd("ok", "EACH_QUORUM", <<>>)
      [] v = 8 -> Rd("ok", "SERIAL", <<>>)
      [] v = 9 -> Rd("ok", "LOCAL_SERIAL", <<>>)
      [] v = 10 -> Rd("ok", "LOCAL_ONE", <<>>)
      [] OTHER -> Rd("abort", "", <<>>)

\* consistency_to_wire: the code of a level; default: assert(0)
consistency_to_wire(c) ==
    CASE c = "ANY" -> 0
      [] c = "ONE" -> 1
      [] c = "TWO" -> 2
      [] c = "THREE" -> 3
      [] c = "QUORUM" -> 4
      [] c = "ALL" -> 5
      [] c = "LOCAL_QUORUM" -> 6
      [] c = "EACH_QUORUM" -> 7
      [] c = "SERIAL" -> 8
      [] c = "LOCAL_SERIAL" -> 9
      [] c = "LOCAL_ONE" -> 10
      [] OTHER -> -1

\* response::write_consistency
write_consistency(r, c) == write_short(r, consistency_to_wire(c))

\* connection::read_consistency
read_consistency(buf) ==
    LET n == read_short(buf)
    IN IF n.st # "ok" THEN n
       ELSE [wire_to_consistency(n.val) EXCEPT !.rest = n.rest]

(***************************************************************************)
(* The handlers.  A handler's result is the set of outcomes it can have:   *)
(*   abort  the process ends (assert, abort(), a crash)                    *)
(*   throw  the handler throws: process_request()'s future fails           *)
(*   reply  the handler passes a response to write_response()              *)
(*   ready  the handler returns a ready future and writes nothing          *)
(***************************************************************************)
Abort(why) == [kind |-> "abort", r |-> response(0, ERROR), note |-> why]
Throw(why) == [kind |-> "throw", r |-> response(0, ERROR), note |-> why]
Ready == [kind |-> "ready", r |-> response(0, ERROR), note |-> ""]
Reply(r) == [kind |-> "reply", r |-> r, note |-> ""]

\* what follows a reader's failure before the handler's own code goes on with "then"
AfterRead(st, then) ==
    CASE st = "ok" -> then
      [] st = "badlen" -> {Throw("sstring overflow"), Abort("assert(n >= 0)")}
      [] OTHER -> {Abort("read past the end of the buffer")} \cup then

process_startup(stream, buf) ==
    AfterRead(read_string_map(buf).st, {Reply(write_ready(stream))})

process_auth_response(stream, buf) == {Abort("assert(0)")}

process_options(stream, buf) == {Reply(write_supported(stream))}

\* parser.query(): a statement, or nullptr when the text does not compile
ParserResults == {"stmt", "nullptr"}

process_query(stream, buf) ==
    AfterRead(read_long_string(buf).st,
              {IF stmt = "nullptr" THEN Abort("assert(stmt != nullptr)") ELSE Ready :
                  stmt \in ParserResults})

process_prepare(stream, buf) == {Abort("assert(0)")}

process_execute(stream, buf) == {Abort("assert(0)")}

process_batch(stream, buf) == {Abort("assert(0)")}

process_register(stream, buf) == {Reply(write_ready(stream))}

HandledOpcodes ==
    {STARTUP, AUTH_RESPONSE, OPTIONS, QUERY, PREPARE, EXECUTE, BATCH, REGISTER}

\* the continuation of read_exactly(f.length) in process_request
dispatch(f, buf) ==
    IF f.flags % 2 = 1 THEN {Abort("assert(!(f.flags & 0x01))")}
    ELSE CASE f.opcode = STARTUP -> process_startup(f.stream, buf)
           [] f.opcode = AUTH_RESPONSE -> process_auth_response(f.stream, buf)
           [] f.opcode = OPTIONS -> process_options(f.stream, buf)
           [] f.opcode = QUERY -> process_query(f.stream, buf)
           [] f.opcode = PREPARE -> process_prepare(f.stream, buf)
           [] f.opcode = EXECUTE -> process_execute(f.stream, buf)
           [] f.opcode = BATCH -> process_batch(f.stream, buf)
           [] f.opcode = REGISTER -> process_register(f.stream, buf)
           [] OTHER -> {Abort("default: assert(0)")}

(***************************************************************************)
(* The clients: the request frames they send, as the bytes of the structs  *)
(* cql_binary_frame_v1 (versions 1 and 2) and cql_binary_frame_v3.         *)
(***************************************************************************)
Frame(v, flags, stream, opcode, body) ==
    [version |-> v, flags |-> flags, stream |-> stream, opcode |-> opcode,
     body |-> body]

RequestHeader(f) ==
    IF f.version \in {1, 2}
    THEN <<f.version, f.flags, U8(f.stream), f.opcode>> \o htonl(Len(f.body))
    ELSE <<f.version, f.flags>> \o htons(f.stream) \o <<f.opcode>>
         \o htonl(Len(f.body))

RequestBytes(f) == RequestHeader(f) \o f.body

Versions == 1..4

\* stream ids a client uses: one and two bytes wide
Streams(v) == IF v < 3 THEN {1, 130} ELSE {1, 258}

\* request bodies: a string map {"CQL_VERSION": "3.0.0"}, a long string "use x",
\* an empty string list
StartupBody == <<0, 1, 0, 11>> \o S_CQL_VERSION \o <<0, 5>> \o S_3_0_0
QueryBody == <<0, 0, 0, 5, 117, 115, 101, 32, 120>>
RegisterBody == <<0, 0>>
\* a string map whose only value is 32768 bytes long
LongValue == [i \in 1..32768 |-> 97]
LongStartupBody == <<0, 1, 0, 11>> \o S_CQL_VERSION \o <<128, 0>> \o LongValue
\* bodies that end before the fields they announce
ShortBodies == {<<0>>, <<0, 1>>, <<0, 1, 0, 11, 67, 81>>, <<0, 0, 0, 5, 117>>}

\* the frames whose handler answers or returns
ServedFrames ==
    {Frame(v, 0, s, op[1], op[2]) :
        v \in Versions, s \in {1, 130, 258},
        op \in {<<STARTUP, StartupBody>>, <<OPTIONS, <<>>>>, <<QUERY, QueryBody>>,
                <<REGISTER, RegisterBody>>}}

FullMenu ==
    {f \in ServedFrames : f.stream \in Streams(f.version)}
    \cup {Frame(v, 0, 1, OPTIONS, QueryBody) : v \in {2, 4}}
    \cup {Frame(v, 0, 1, op, <<>>) :
            v \in {2, 3},
            op \in {AUTH_RESPONSE, PREPARE, EXECUTE, BATCH, READY, RESULT, 17, 200}}
    \cup {Frame(v, fl, 1, OPTIONS, <<>>) : v \in {1, 4}, fl \in {1, 3}}
    \cup {Frame(v, 0, 1, OPTIONS, <<>>) : v \in {0, 5, 131}}
    \cup {Frame(3, 0, 1, op, b) : op \in {STARTUP, QUERY}, b \in ShortBodies}
    \cup {Frame(3, 0, 1, STARTUP, LongStartupBody)}

ServerMenu ==
    {Frame(v, 0, 1, OPTIONS, <<>>) : v \in {3, 5}}
    \cup {Frame(3, 0, 1, EXECUTE, <<>>), Frame(3, 1, 1, OPTIONS, <<>>)}

\* the places where the stream may end inside a frame
CutPoints(f) ==
    LET h == frame_size(f.version)
        n == h + Len(f.body)
    IN {1, 2, h - 1, h, h + 1, n - 1} \cap (1..(n - 1))

\* what the bytes of a buffer that were never written may hold
JunkHeaders ==
    {[i \in 1..9 |-> 0],
     RequestHeader(Frame(3, 0, 258, OPTIONS, <<>>)),
     RequestHeader(Frame(3, 0, 1, STARTUP, <<0, 0>>))}

(***************************************************************************)
(* The state.                                                              *)
(***************************************************************************)
VARIABLES
    proc,       \* "running", or "aborted" once an assert or abort() ended the process
    accepting,  \* cql_server::do_accepts: an accept() is outstanding
    pc,         \* per connection: where its task is suspended
    version,    \* connection::_version
    rbuf,       \* connection::_read_buf: the bytes received and not yet read
    reof,       \* the client has closed the stream
    frame,      \* the header process_request is working on
    wbuf,       \* connection::_write_buf: messages written and not yet flushed
    wire,       \* the messages flushed to the socket, in order
    logged,     \* what do_accepts' rescue printed for the connection ("" is nothing)
    hist,       \* per connection: the frames handed to a handler, with the replies
    backlog,    \* clients that have yet to connect
    quota,      \* frames the clients may still send, all together
    menu,       \* which frames the clients send: "full" or "server"
    call,       \* the codec call under way: its arguments, the bytes, the result
    map,        \* flush_queue::_map: the key of each entry and the promise it holds
    gate,       \* flush_queue::_gate
    promises,   \* per key: the promises its entry has held, each set or not yet
    ops,        \* per key: where its run_with_ordered_post_op call has got to
    waiters,    \* per caller of wait_for_pending: what it waits on
    asserted    \* the assertion of flush_queue that failed ("none" is none)

vars == <<proc, accepting, pc, version, rbuf, reof, frame, wbuf, wire, logged,
          hist, backlog, quota, menu, call, map, gate, promises, ops, waiters, asserted>>

\* the state of the flush_queue
flush_vars == <<map, gate, promises, ops, waiters, asserted>>

\* the frames the clients of this run send
Menu == IF menu = "full" THEN FullMenu ELSE ServerMenu

\* the frames a client may cut short by closing the stream
CutFrames ==
    {f \in Menu : f.flags = 0 /\ f.stream = 1 /\ f.version \in {2, 3}
               /\ f.body \in {<<>>, StartupBody}
               /\ f.opcode \in {OPTIONS, STARTUP}}

Conns == 1..MaxConns

NoFrame == BadFrame("none")

\* no codec call is under way
NoCall == [op |-> "none", stage |-> "none"]

Reading == {"read_version", "read_tail", "read_header", "read_body"}
Writing == {"write", "flush"}
Live == Reading \cup Writing

(***************************************************************************)
(* utils::flush_queue as constructed: an empty map, an open gate.          *)
(***************************************************************************)
Keys == 1..MaxKey
Waiters == 1..MaxWaiters

\* a key no run_with_ordered_post_op has been called with
\* no promise: a promise is named by the key of the entry it was made for and
\* its number among the promises of that entry
NoPromise == <<0, 0>>

NoOp ==
    [st |-> "idle", f |-> "none", post |-> "none", waits_on |-> NoPromise,
     pr |-> NoPromise, entered |-> 0, left |-> 0, erased |-> 0, result |-> "none"]

\* a caller that has not called wait_for_pending; active is the keys in the map
\* that the call is to wait for, kept until the wait is over
NoWaiter == [st |-> "idle", waits_on |-> NoPromise, pr |-> NoPromise, active |-> {}]

InitFlushQueue ==
    /\ map = <<>>
    /\ gate = [count |-> 0, closed |-> FALSE, stopped |-> "none", check |-> "none",
               admitted |-> {}]
    /\ promises = [k \in Keys |-> <<>>]
    /\ ops = [k \in Keys |-> NoOp]
    /\ waiters = [w \in Waiters |-> NoWaiter]
    /\ asserted = "none"

InitServerState ==
    /\ proc = "running"
    /\ accepting = TRUE
    /\ pc = [c \in Conns |-> "none"]
    /\ version = [c \in Conns |-> 0]
    /\ rbuf = [c \in Conns |-> <<>>]
    /\ reof = [c \in Conns |-> FALSE]
    /\ frame = [c \in Conns |-> NoFrame]
    /\ wbuf = [c \in Conns |-> <<>>]
    /\ wire = [c \in Conns |-> <<>>]
    /\ logged = [c \in Conns |-> ""]
    /\ hist = [c \in Conns |-> <<>>]

\* one client, the whole menu
Init ==
    /\ InitServerState
    /\ backlog = 1
    /\ quota = MaxFrames
    /\ menu = "full"
    /\ call = NoCall
    /\ InitFlushQueue

\* several clients, a short menu
InitServer ==
    /\ InitServerState
    /\ backlog = MaxConns
    /\ quota = MaxServerFrames
    /\ menu = "server"
    /\ call = NoCall
    /\ InitFlushQueue

(***************************************************************************)
(* The environment: clients and the network.                               *)
(***************************************************************************)
\* A client sends a frame once the server has read what it sent before; after
\* its first frame it keeps to the version, or sends a bare OPTIONS frame of another.
MaySend(c, f) ==
    /\ proc = "running" /\ pc[c] \in Live /\ ~reof[c] /\ quota > 0
    /\ rbuf[c] = <<>>
    /\ \/ version[c] \in {0, f.version}
       \/ f.stream = 1 /\ f.flags = 0 /\ f.opcode = OPTIONS /\ f.body = <<>>

ClientSend(c, f) ==
    /\ MaySend(c, f)
    /\ rbuf' = [rbuf EXCEPT ![c] = @ \o RequestBytes(f)]
    /\ quota' = quota - 1
    /\ UNCHANGED <<proc, accepting, pc, version, reof, frame, wbuf, wire, logged,
                   hist, backlog, menu, call, flush_vars>>

\* the client sends the first k bytes of a frame and closes the stream
ClientSendCut(c, f, k) ==
    /\ MaySend(c, f)
    /\ rbuf' = [rbuf EXCEPT ![c] = @ \o Take(RequestBytes(f), k)]
    /\ reof' = [reof EXCEPT ![c] = TRUE]
    /\ quota' = quota - 1
    /\ UNCHANGED <<proc, accepting, pc, version, frame, wbuf, wire, logged,
                   hist, backlog, menu, call, flush_vars>>

ClientClose(c) ==
    /\ proc = "running" /\ pc[c] \in Live /\ ~reof[c]
    /\ reof' = [reof EXCEPT ![c] = TRUE]
    /\ UNCHANGED <<proc, accepting, pc, version, rbuf, frame, wbuf, wire, logged,
                   hist, backlog, quota, menu, call, flush_vars>>

(***************************************************************************)
(* How a connection's task ends.  process() resolves at end of stream; a   *)
(* failed future reaches the rescue of do_accepts, which prints it.  Either*)
(* way the last reference to the connection goes and its buffers with it.  *)
(***************************************************************************)
Finish(c, how, what) ==
    /\ pc' = [pc EXCEPT ![c] = how]
    /\ logged' = [logged EXCEPT ![c] = what]
    /\ rbuf' = [rbuf EXCEPT ![c] = <<>>]
    /\ wbuf' = [wbuf EXCEPT ![c] = <<>>]
    /\ frame' = [frame EXCEPT ![c] = NoFrame]

\* a read or a write on the socket fails
IOError(c) ==
    /\ proc = "running" /\ pc[c] \in Live
    /\ Finish(c, "failed", "io error")
    /\ UNCHANGED <<proc, accepting, version, reof, wire, hist, backlog, quota, menu, call, flush_vars>>

(***************************************************************************)
(* cql_server::do_accepts                                                  *)
(***************************************************************************)
Accept(c) ==
    /\ proc = "running" /\ accepting /\ backlog > 0
    /\ pc[c] = "none" /\ \A d \in Conns : d < c => pc[d] # "none"
    /\ backlog' = backlog - 1
    /\ pc' = [pc EXCEPT ![c] = "read_version"]
    /\ UNCHANGED <<proc, accepting, version, rbuf, reof, frame, wbuf, wire, logged,
                   hist, quota, menu, call, flush_vars>>

\* accept() fails on a connection attempt: the rescue prints "accept failed" and
\* do_accepts is not called again
AcceptFail ==
    /\ proc = "running" /\ accepting /\ backlog > 0
    /\ accepting' = FALSE
    /\ backlog' = backlog - 1
    /\ UNCHANGED <<proc, pc, version, rbuf, reof, frame, wbuf, wire, logged, hist,
                   quota, menu, call, flush_vars>>

(***************************************************************************)
(* cql_server::connection::read_frame.  read_exactly(n) completes with n   *)
(* bytes, or with the bytes there are when the stream has ended.           *)
(***************************************************************************)
Readable(c, n) == (n >= 0 /\ Len(rbuf[c]) >= n) \/ reof[c]

\* what read_frame does with parse_frame's result; rest is what stays unread
Parsed(c, f, rest) ==
    IF f.st = "ok" THEN
        /\ pc' = [pc EXCEPT ![c] = "read_body"]
        /\ frame' = [frame EXCEPT ![c] = f]
        /\ rbuf' = [rbuf EXCEPT ![c] = rest]
        /\ UNCHANGED <<proc, wbuf, logged>>
    ELSE IF f.st = "abort" THEN
        /\ proc' = "aborted"
        /\ pc' = [pc EXCEPT ![c] = "aborted"]
        /\ UNCHANGED <<frame, rbuf, wbuf, logged>>
    ELSE
        /\ Finish(c, "failed", f.st)
        /\ UNCHANGED proc

\* fault-injection variant of ReadVersion: the range of _version is not checked
ReadVersionUnchecked(c) ==
    /\ proc = "running" /\ pc[c] = "read_version" /\ Readable(c, 1)
    /\ IF rbuf[c] = <<>> THEN
           /\ Finish(c, "done", "")
           /\ UNCHANGED version
       ELSE
           /\ version' = [version EXCEPT ![c] = rbuf[c][1]]
           /\ pc' = [pc EXCEPT ![c] = "read_tail"]
           /\ rbuf' = [rbuf EXCEPT ![c] = Tail(@)]
           /\ UNCHANGED <<frame, wbuf, logged>>
    /\ UNCHANGED <<proc, accepting, reof, wire, hist, backlog, quota, menu, call, flush_vars>>

\* the first read of a connection: one byte, the version
ReadVersion(c) ==
    /\ proc = "running" /\ pc[c] = "read_version" /\ Readable(c, 1)
    /\ IF rbuf[c] = <<>> THEN
           /\ Finish(c, "done", "")
           /\ UNCHANGED version
       ELSE
           /\ version' = [version EXCEPT ![c] = rbuf[c][1]]
           /\ IF rbuf[c][1] < 1 \/ rbuf[c][1] > 4
              THEN Finish(c, "failed", "bad_cql_protocol_version")
              ELSE /\ pc' = [pc EXCEPT ![c] = "read_tail"]
                   /\ rbuf' = [rbuf EXCEPT ![c] = Tail(@)]
                   /\ UNCHANGED <<frame, wbuf, logged>>
    /\ UNCHANGED <<proc, accepting, reof, wire, hist, backlog, quota, menu, call, flush_vars>>

\* the rest of the first header: the tail is copied into a buffer of frame_size()
\* bytes; the bytes a short tail leaves unwritten hold whatever they held
ReadTail(c) ==
    /\ proc = "running" /\ pc[c] = "read_tail"
    /\ LET v == version[c]
           n == frame_size(v)
           tail == Take(rbuf[c], n - 1)
       IN /\ Readable(c, n - 1)
          /\ \E junk \in (IF Len(tail) = n - 1 THEN {<<>>} ELSE JunkHeaders) :
                Parsed(c, parse_frame(v, <<v>> \o tail \o SubSeq(junk, Len(tail) + 2, n)),
                       Drop(rbuf[c], n - 1))
    /\ UNCHANGED <<accepting, version, reof, wire, hist, backlog, quota, menu, call, flush_vars>>

\* fault-injection variant of ReadHeader: an empty read is handed to parse_frame
ReadHeaderNoEof(c) ==
    /\ proc = "running" /\ pc[c] = "read_header"
    /\ LET n == frame_size(version[c])
           buf == Take(rbuf[c], n)
       IN /\ Readable(c, n)
          /\ Parsed(c, parse_frame(version[c], buf), Drop(rbuf[c], n))
    /\ UNCHANGED <<accepting, version, reof, wire, hist, backlog, quota, menu, call, flush_vars>>

\* a later header: the size is known
ReadHeader(c) ==
    /\ proc = "running" /\ pc[c] = "read_header"
    /\ LET n == frame_size(version[c])
           buf == Take(rbuf[c], n)
       IN /\ Readable(c, n)
          /\ IF buf = <<>> THEN Finish(c, "done", "") /\ UNCHANGED proc
             ELSE Parsed(c, parse_frame(version[c], buf), Drop(rbuf[c], n))
    /\ UNCHANGED <<accepting, version, reof, wire, hist, backlog, quota, menu, call, flush_vars>>

(***************************************************************************)
(* cql_server::connection::process_request and write_response.             *)
(***************************************************************************)
\* fault-injection variant of write_response: the future of the write is dropped
WriteResponseNoWait(c, r) ==
    /\ wbuf' = [wbuf EXCEPT ![c] = Append(@, make_message(version[c], r))]
    /\ pc' = [pc EXCEPT ![c] = "read_header"]

\* make_message, then _write_buf.write(): the task waits for the write
write_response(c, r) ==
    /\ wbuf' = [wbuf EXCEPT ![c] = Append(@, make_message(version[c], r))]
    /\ pc' = [pc EXCEPT ![c] = "write"]

\* the body is read and the handler runs up to its first wait
ReadBody(c) ==
    /\ proc = "running" /\ pc[c] = "read_body"
    /\ LET f == frame[c]
           buf == ReadExactly(rbuf[c], f.length)
       IN /\ Readable(c, f.length)
          /\ \E o \in dispatch(f, buf) :
             /\ hist' = IF f.flags % 2 = 0 /\ f.opcode \in HandledOpcodes
                        THEN [hist EXCEPT ![c] = Append(@, [f |-> f, body |-> buf,
                                                            out |-> <<>>, note |-> o.note])]
                        ELSE hist
             /\ CASE o.kind = "abort" ->
                        /\ proc' = "aborted"
                        /\ pc' = [pc EXCEPT ![c] = "aborted"]
                        /\ rbuf' = [rbuf EXCEPT ![c] = Unread(@, f.length)]
                        /\ UNCHANGED <<frame, wbuf, logged>>
                  [] o.kind = "throw" ->
                        /\ Finish(c, "failed", o.note)
                        /\ UNCHANGED proc
                  [] o.kind = "reply" ->
                        /\ write_response(c, o.r)
                        /\ rbuf' = [rbuf EXCEPT ![c] = Unread(@, f.length)]
                        /\ UNCHANGED <<proc, frame, logged>>
                  [] OTHER ->
                        /\ pc' = [pc EXCEPT ![c] = "read_header"]
                        /\ frame' = [frame EXCEPT ![c] = NoFrame]
                        /\ rbuf' = [rbuf EXCEPT ![c] = Unread(@, f.length)]
                        /\ UNCHANGED <<proc, wbuf, logged>>
    /\ UNCHANGED <<accepting, version, reof, wire, backlog, quota, menu, call, flush_vars>>

\* _write_buf.write() completes: flush() is called
WriteDone(c) ==
    /\ proc = "running" /\ pc[c] = "write"
    /\ pc' = [pc EXCEPT ![c] = "flush"]
    /\ UNCHANGED <<proc, accepting, version, rbuf, reof, frame, wbuf, wire, logged,
                   hist, backlog, quota, menu, call, flush_vars>>

\* flush() completes: the message is on the socket and do_until goes round
FlushDone(c) ==
    /\ proc = "running" /\ pc[c] = "flush"
    /\ wire' = [wire EXCEPT ![c] = Append(@, Head(wbuf[c]))]
    /\ hist' = [hist EXCEPT ![c][Len(hist[c])].out = Append(@, Head(wbuf[c]))]
    /\ wbuf' = [wbuf EXCEPT ![c] = Tail(@)]
    /\ pc' = [pc EXCEPT ![c] = "read_header"]
    /\ frame' = [frame EXCEPT ![c] = NoFrame]
    /\ UNCHANGED <<proc, accepting, version, rbuf, reof, logged, backlog, quota, menu, call, flush_vars>>

(***************************************************************************)
(* The specifications.                                                     *)
(***************************************************************************)
Next ==
    \/ \E c \in Conns : Accept(c)
    \/ AcceptFail
    \/ \E c \in Conns : \E f \in Menu : ClientSend(c, f)
    \/ \E c \in Conns : \E f \in CutFrames : \E k \in CutPoints(f) :
          ClientSendCut(c, f, k)
    \/ \E c \in Conns : ClientClose(c)
    \/ \E c \in Conns : IOError(c)
    \/ \E c \in Conns : ReadVersion(c)
    \/ \E c \in Conns : ReadTail(c)
    \/ \E c \in Conns : ReadHeader(c)
    \/ \E c \in Conns : ReadBody(c)
    \/ \E c \in Conns : WriteDone(c)
    \/ \E c \in Conns : FlushDone(c)

\* one connection, every kind of frame
Spec == Init /\ [][Next]_vars

\* several connections on one listener
SpecServer == InitServer /\ [][Next]_vars

(***************************************************************************)
(* The wire format as a client reads it: lengths and counts are unsigned.  *)
(***************************************************************************)
WireFail == [ok |-> FALSE, val |-> <<>>, rest |-> <<>>]
WireOk(val, rest) == [ok |-> TRUE, val |-> val, rest |-> rest]

WireShort(buf) ==
    IF Len(buf) < 2 THEN WireFail ELSE WireOk(buf[1] * 256 + buf[2], Drop(buf, 2))

WireString(buf) ==
    LET n == WireShort(buf)
    IN IF ~n.ok \/ Len(n.rest) < n.val THEN WireFail
       ELSE WireOk(Take(n.rest, n.val), Drop(n.rest, n.val))

\* n short strings in a row
RECURSIVE WireStrings(_, _)
WireStrings(n, buf) ==
    IF n = 0 THEN WireOk(<<>>, buf)
    ELSE LET s == WireString(buf)
         IN IF ~s.ok THEN WireFail
            ELSE LET t == WireStrings(n - 1, s.rest)
                 IN IF ~t.ok THEN WireFail ELSE WireOk(<<s.val>> \o t.val, t.rest)

WireStringList(buf) ==
    LET n == WireShort(buf)
    IN IF ~n.ok THEN WireFail ELSE WireStrings(n.val, n.rest)

\* a body that is exactly one string map
WireStringMapOK(buf) ==
    LET n == WireShort(buf)
    IN /\ n.ok
       /\ LET l == WireStrings(2 * n.val, n.rest) IN l.ok /\ l.rest = <<>>

\* a body that is exactly one long string
WireLongStringOK(buf) ==
    /\ Len(buf) >= 4
    /\ Int32Of(buf[1], buf[2], buf[3], buf[4]) = Len(buf) - 4

\* n entries of a string multimap: a key and the list of its values
RECURSIVE WireMultimapEntries(_, _)
WireMultimapEntries(n, buf) ==
    IF n = 0 THEN WireOk(<<>>, buf)
    ELSE LET k == WireString(buf)
             l == WireStringList(k.rest)
         IN IF ~k.ok \/ ~l.ok THEN WireFail
            ELSE LET t == WireMultimapEntries(n - 1, l.rest)
                 IN IF ~t.ok THEN WireFail
                    ELSE WireOk(<<<<k.val, l.val>>>> \o t.val, t.rest)

WireMultimap(buf) ==
    LET n == WireShort(buf)
    IN IF ~n.ok THEN WireFail ELSE WireMultimapEntries(n.val, n.rest)

\* a response message: its header fields and its body
WireResponse(msg) ==
    LET v == IF Len(msg) >= 8 THEN msg[1] - 128 ELSE 0
    IN IF v \in {1, 2} THEN
           [ok |-> TRUE, version |-> v, flags |-> msg[2], stream |-> msg[3],
            opcode |-> msg[4], length |-> Int32Of(msg[5], msg[6], msg[7], msg[8]),
            body |-> Drop(msg, 8)]
       ELSE IF v \in {3, 4} /\ Len(msg) >= 9 THEN
           [ok |-> TRUE, version |-> v, flags |-> msg[2],
            stream |-> msg[3] * 256 + msg[4], opcode |-> msg[5],
            length |-> Int32Of(msg[6], msg[7], msg[8], msg[9]), body |-> Drop(msg, 9)]
       ELSE [ok |-> FALSE, version |-> 0, flags |-> 0, stream |-> 0, opcode |-> 0,
             length |-> 0, body |-> <<>>]

\* msg is a response with the given opcode to the request header f on connection c
ResponseTo(c, f, msg, opcode) ==
    LET m == WireResponse(msg)
    IN /\ m.ok /\ m.version = version[c] /\ m.flags = 0
       /\ m.stream = f.stream /\ m.opcode = opcode /\ m.length = Len(m.body)

(***************************************************************************)
(* Reading the history of a connection.                                    *)
(***************************************************************************)
Entries(c) == 1..Len(hist[c])

\* the handler of entry i has finished and the loop has gone on
Answered(c, i) ==
    i < Len(hist[c]) \/ pc[c] \in {"read_header", "read_body", "done"}

\* the connection did not survive entry i: the process ended in its handler, or the
\* handler threw (a failed write or flush is the network's doing, not the handler's)
Lost(c, i) ==
    /\ i = Len(hist[c]) /\ hist[c][i].out = <<>>
    /\ \/ pc[c] = "aborted"
       \/ pc[c] = "failed" /\ logged[c] # "io error"

\* the body read for the entry has the length its header announces
Complete(e) == Len(e.body) = e.f.length

(***************************************************************************)
(* Properties of the connection loop.                                      *)
(***************************************************************************)
HeaderWaiting(c) ==
    pc[c] = "read_header" /\ Len(rbuf[c]) >= frame_size(version[c])

\* C1: once set, a connection's version never changes; a later header with another
\* version byte makes the connection fail (bad_cql_protocol_version, unless the read
\* itself fails), nothing is written for it and no handler runs; a failed connection
\* stays failed and writes nothing.
C1_VersionLocked ==
    [][\A c \in Conns :
          /\ version[c] # 0 => version'[c] = version[c]
          /\ (HeaderWaiting(c) /\ rbuf[c][1] # version[c] /\ pc'[c] # pc[c]) =>
                /\ pc'[c] = "failed"
                /\ logged'[c] \in {"bad_cql_protocol_version", "io error"}
                /\ wire'[c] = wire[c] /\ wbuf'[c] = <<>> /\ hist'[c] = hist[c]
          /\ pc[c] = "failed" => pc'[c] = "failed" /\ wire'[c] = wire[c]]_vars

\* C1 witness: a connection that answered a frame under a version in 1..4 and then
\* failed on a header carrying another version
C1_Witness ==
    \E c \in Conns :
        /\ version[c] \in Versions /\ pc[c] = "failed"
        /\ logged[c] = "bad_cql_protocol_version" /\ Len(wire[c]) = 1

\* C2: a connection has at most one response in flight, and while it waits for a
\* read (of a header or of a body) no response is in flight: every response handed
\* to write_response has been written and flushed.
C2_Sequential ==
    \A c \in Conns :
        /\ Len(wbuf[c]) <= 1
        /\ pc[c] \in Reading => wbuf[c] = <<>>
        /\ wbuf[c] # <<>> => pc[c] \in Writing
        /\ pc[c] \in Reading \cup {"done"} =>
              \A i \in Entries(c) : hist[c][i].note = "" /\ hist[c][i].f.opcode # QUERY
                                    => Len(hist[c][i].out) = 1

\* C2 witness: the next frame has arrived while a response is being flushed
C2_Witness ==
    \E c \in Conns : pc[c] = "flush" /\ rbuf[c] # <<>> /\ wbuf[c] # <<>>

\* C3: when a connection's task fails, the failure is printed by the rescue, the
\* process goes on, the accept loop is as it was and no other connection changes.
C3_FailureIsolated ==
    [][\A c \in Conns :
          (pc[c] \in Live /\ pc'[c] \in {"failed", "aborted"}) =>
              /\ logged'[c] # ""
              /\ proc' = "running"
              /\ accepting' = accepting
              /\ \A d \in Conns \ {c} :
                    /\ pc'[d] = pc[d] /\ version'[d] = version[d]
                    /\ wire'[d] = wire[d] /\ wbuf'[d] = wbuf[d]]_vars

S_not_implemented ==
    <<110, 111, 116, 32, 105, 109, 112, 108, 101, 109, 101, 110, 116, 101, 100>>

\* msg is an ERROR response to f carrying the error code and the message
ErrorTo(c, f, msg, err, text) ==
    /\ ResponseTo(c, f, msg, ERROR)
    /\ WireResponse(msg).body = htonl(err) \o htons(Len(text)) \o text

\* C4: a complete EXECUTE, PREPARE, BATCH or AUTH_RESPONSE frame does not end the
\* connection; it is answered with one ERROR frame (SERVER_ERROR, "not implemented")
\* on its stream, and an OPTIONS frame that follows is answered with SUPPORTED.
C4_NotImplementedReply ==
    \A c \in Conns : \A i \in Entries(c) :
        LET e == hist[c][i]
        IN (e.f.opcode \in {EXECUTE, PREPARE, BATCH, AUTH_RESPONSE} /\ Complete(e)) =>
              /\ ~Lost(c, i)
              /\ Answered(c, i) =>
                    /\ Len(e.out) = 1
                    /\ ErrorTo(c, e.f, e.out[1], SERVER_ERROR, S_not_implemented)
              /\ (i < Len(hist[c]) /\ hist[c][i + 1].f.opcode = OPTIONS
                  /\ Answered(c, i + 1)) =>
                    /\ Len(hist[c][i + 1].out) = 1
                    /\ ResponseTo(c, hist[c][i + 1].f, hist[c][i + 1].out[1], SUPPORTED)

\* C5: when the body of a frame whose flags have bit 0x01 set has been read, the
\* connection fails and only it: no handler runs, nothing is written on any
\* connection, the process and the accept loop go on, no other connection changes.
C5_CompressionClosesOne ==
    [][\A c \in Conns :
          (pc[c] = "read_body" /\ frame[c].flags % 2 = 1 /\ pc'[c] # pc[c]) =>
              /\ pc'[c] = "failed"
              /\ proc' = "running" /\ accepting' = accepting
              /\ hist' = hist /\ wire' = wire /\ wbuf'[c] = <<>>
              /\ \A d \in Conns \ {c} : pc'[d] = pc[d] /\ wbuf'[d] = wbuf[d]]_vars

\* C6: when the body of a frame with flags 0 and an opcode that has no handler has
\* been read (and the read did not fail), the process goes on and the connection
\* writes one ERROR frame carrying PROTOCOL_ERROR on the frame's stream.
C6_UnknownOpcodeReply ==
    [][\A c \in Conns :
          (/\ pc[c] = "read_body" /\ frame[c].flags % 2 = 0
           /\ frame[c].opcode \notin HandledOpcodes
           /\ pc'[c] # pc[c] /\ logged'[c] # "io error") =>
              /\ proc' = "running"
              /\ pc'[c] = "write"
              /\ Len(wbuf'[c]) = 1
              /\ ResponseTo(c, frame[c], wbuf'[c][1], ERROR)
              /\ Take(WireResponse(wbuf'[c][1]).body, 4) = htonl(PROTOCOL_ERROR)]_vars

\* the handler of the entry met a body it cannot process: a field cut short in a
\* STARTUP or QUERY body, or a query text that does not compile
BodyFailure(e) ==
    /\ Complete(e)
    /\ \/ e.f.opcode = STARTUP /\ ~WireStringMapOK(e.body)
       \/ e.f.opcode = QUERY /\ ~WireLongStringOK(e.body)
       \/ e.f.opcode = QUERY /\ e.note = "assert(stmt != nullptr)"

\* C7: a failure in the body of a frame does not end the connection; the frame is
\* answered with exactly one ERROR frame on its stream.
C7_BodyFailureReply ==
    \A c \in Conns : \A i \in Entries(c) :
        LET e == hist[c][i]
        IN BodyFailure(e) =>
              /\ ~Lost(c, i)
              /\ Len(e.out) <= 1
              /\ Answered(c, i) =>
                    Len(e.out) = 1 /\ ResponseTo(c, e.f, e.out[1], ERROR)

\* C8: a complete QUERY frame whose body is one long string is answered with exactly
\* one frame on its stream, a RESULT or an ERROR.
C8_QueryAnswered ==
    \A c \in Conns : \A i \in Entries(c) :
        LET e == hist[c][i]
        IN (e.f.opcode = QUERY /\ Complete(e) /\ WireLongStringOK(e.body)) =>
              /\ ~Lost(c, i)
              /\ Len(e.out) <= 1
              /\ Answered(c, i) =>
                    /\ Len(e.out) = 1
                    /\ \/ ResponseTo(c, e.f, e.out[1], RESULT)
                       \/ ResponseTo(c, e.f, e.out[1], ERROR)

\* the options a SUPPORTED body has to list: each key once, with its values in order
SupportedOptions ==
    {<<S_CQL_VERSION, <<S_3_0_0, S_3_2_0>>>>, <<S_COMPRESSION, <<S_snappy>>>>}

\* C9: an OPTIONS frame, whatever its body, gets at most one reply, and once the
\* loop has gone on exactly one: a SUPPORTED frame on the request's stream whose body
\* is a string multimap of two keys, CQL_VERSION with the values 3.0.0 and 3.2.0 in
\* that order and COMPRESSION with the value snappy.
C9_OptionsSupported ==
    \A c \in Conns : \A i \in Entries(c) :
        LET e == hist[c][i]
        IN e.f.opcode = OPTIONS =>
              /\ Len(e.out) <= 1
              /\ Answered(c, i) =>
                    /\ Len(e.out) = 1
                    /\ ResponseTo(c, e.f, e.out[1], SUPPORTED)
                    /\ LET mm == WireMultimap(WireResponse(e.out[1]).body)
                       IN /\ mm.ok /\ mm.rest = <<>> /\ Len(mm.val) = 2
                          /\ {mm.val[k] : k \in 1..Len(mm.val)} = SupportedOptions

\* C9 witness: an answered OPTIONS frame that came with a body, on a two byte stream
C9_Witness ==
    \E c \in Conns : \E i \in Entries(c) :
        /\ hist[c][i].f.opcode = OPTIONS /\ Len(hist[c][i].out) = 1
        /\ \E j \in Entries(c) :
              /\ hist[c][j].f.opcode = OPTIONS /\ hist[c][j].body # <<>>
              /\ Len(hist[c][j].out) = 1
        /\ hist[c][i].f.stream = 258

\* C10: a complete STARTUP frame whose body is one string map, and a complete
\* REGISTER frame, do not end the connection and are answered with exactly one READY
\* frame of body length 0 on the request's stream.
C10_ReadyReply ==
    \A c \in Conns : \A i \in Entries(c) :
        LET e == hist[c][i]
        IN (/\ Complete(e)
            /\ \/ e.f.opcode = STARTUP /\ WireStringMapOK(e.body)
               \/ e.f.opcode = REGISTER) =>
              /\ ~Lost(c, i)
              /\ Len(e.out) <= 1
              /\ Answered(c, i) =>
                    /\ Len(e.out) = 1
                    /\ ResponseTo(c, e.f, e.out[1], READY)
                    /\ WireResponse(e.out[1]).length = 0

(***************************************************************************)
(* The codec on its own: one call of an encoder or a decoder at a time,    *)
(* on arguments drawn from the sets below.  The server stands still.       *)
(***************************************************************************)
\* the stream ids a header of the version can carry: a signed byte, a signed short
ValidStream(v, s) == IF v < 3 THEN s \in -128..127 ELSE s \in -32768..32767

\* body lengths up to the largest int32_t
BodyLengths == {0, 1, 255, 256, 65535, 65536, 16777216, 2147483647}

\* opcode bytes
OpcodeBytes == {ERROR, READY, SUPPORTED, RESULT, AUTH_SUCCESS, 127, 128, 255}

\* the arguments of make_frame: the version, response::_stream, _opcode, the length
HeaderArgs ==
    [op : {"header"}, stage : {"args"},
     arg : {[v |-> v, stream |-> s, opcode |-> o, length |-> n] :
               v \in Versions, s \in {-32768, -129, -128, -1, 0, 1, 127, 128, 255, 256, 32767},
               o \in {READY, 255}, n \in {0, 2147483647}}
           \cup {[v |-> v, stream |-> 1, opcode |-> o, length |-> n] :
               v \in Versions, o \in OpcodeBytes, n \in BodyLengths},
     bytes : {<<>>}, res : {NoFrame}]

\* header buffers of every size from 0 to 10 bytes, handed to parse_frame
ParseArgs ==
    [op : {"parse"}, stage : {"request"},
     arg : {[v |-> v] : v \in Versions},
     bytes : UNION {{Take(<<v, 0, 0, 1, 5, 0, 0, 0, 0, 0>>, k) : k \in 0..10} :
                       v \in Versions},
     res : {NoFrame}]

\* response::make_frame on the arguments
CallMakeFrame ==
    /\ call.op = "header" /\ call.stage = "args"
    /\ call' = [call EXCEPT
                  !.bytes = make_frame(call.arg.v, call.arg.stream, call.arg.opcode,
                                       call.arg.length),
                  !.stage = "encoded"]

\* the header as a request carries it: bit 0x80 of the version byte cleared
ClearResponseBit ==
    /\ call.op = "header" /\ call.stage = "encoded"
    /\ call' = [call EXCEPT !.bytes[1] = @ % 128, !.stage = "request"]

\* connection::parse_frame, on a connection whose _version is the argument's
CallParseFrame ==
    /\ call.op \in {"header", "parse"} /\ call.stage \in {"encoded", "request"}
    /\ call' = [call EXCEPT !.res = parse_frame(call.arg.v, call.bytes),
                            !.stage = "decoded"]

\* the members of connection that read a wire type
Readers == {"byte", "short", "int", "long", "string", "long_string", "string_map"}

\* buffers for the readers: whole values, values cut short, lengths and counts
\* that announce more than follows, values followed by more
ReadBuffers ==
    {<<>>, <<7>>, <<255, 1>>, <<1, 2>>, <<0, 0>>, <<0, 0, 9>>, <<0, 1>>, <<0, 0, 0>>,
     <<0, 0, 0, 0>>, <<0, 0, 1, 0, 9>>, <<127, 255, 255, 255>>,
     <<0, 0, 0, 2, 97>>, <<0, 0, 0, 2, 97, 98>>, <<0, 0, 0, 2, 97, 98, 99>>,
     <<0, 2, 97>>, <<0, 2, 97, 98>>, <<0, 2, 97, 98, 99>>,
     <<1, 2, 3, 4, 5, 6, 7>>, <<1, 2, 3, 4, 5, 6, 7, 8>>,
     <<255, 254, 253, 252, 251, 250, 249, 248, 9>>,
     <<0, 1, 0, 1, 97>>, <<0, 1, 0, 1, 97, 0, 1>>, <<0, 1, 0, 1, 97, 0, 1, 98>>,
     <<0, 2, 0, 1, 97, 0, 1, 98>>,
     <<0, 2, 0, 1, 97, 0, 1, 98, 0, 1, 99, 0, 0>>,
     <<0, 2, 0, 1, 97, 0, 1, 98, 0, 1, 99, 0, 0, 5>>,
     <<0, 2, 0, 1, 97, 0, 1, 98, 0, 1, 97, 0, 1, 99>>,
     <<0, 3, 0, 1, 97, 0, 1, 98, 0, 1, 100, 0, 0, 0, 1, 97, 0, 2, 99, 99>>}

NoRead == Rd("none", 0, <<>>)

ReadArgs ==
    [op : {"read"}, stage : {"request"}, arg : {[reader |-> r] : r \in Readers},
     bytes : ReadBuffers, res : {NoRead}]

\* the reader of the name, on the buffer
read(reader, buf) ==
    CASE reader = "byte" -> read_byte(buf)
      [] reader = "short" -> read_short(buf)
      [] reader = "int" -> read_int(buf)
      [] reader = "long" -> read_long(buf)
      [] reader = "string" -> read_string(buf)
      [] reader = "long_string" -> read_long_string(buf)
      [] OTHER -> read_string_map(buf)

\* What a call of a reader comes to.  A read past the end of the buffer is
\* undefined behaviour: the process crashes, or the reader returns a value made
\* of bytes that are not the buffer's.  A negative length makes the sstring
\* constructor throw, or fails assert(n >= 0).
ReadOutcomes(r) ==
    CASE r.st = "ok" -> {r}
      [] r.st = "badlen" -> {Rd("throw", 0, <<>>), Rd("abort", 0, <<>>)}
      [] r.st = "abort" -> {Rd("abort", 0, <<>>)}
      [] OTHER -> {Rd("abort", 0, <<>>), Rd("garbage", 0, <<>>)}

\* a call of a reader
CallRead ==
    /\ call.op = "read" /\ call.stage = "request"
    /\ \E o \in ReadOutcomes(read(call.arg.reader, call.bytes)) :
          call' = [call EXCEPT !.res = o, !.stage = "decoded"]

\* consistency codes: the eleven of the levels, and others
ConsistencyCodes == (0..12) \cup {255, 256, 32767, 32768, 39321, 65535}

\* a level to write and read back, or a code to read
ConsistencyArgs ==
    [op : {"consistency"}, stage : {"args"},
     arg : {[level |-> l] : l \in ConsistencyLevels},
     bytes : {<<>>}, res : {NoRead}]
    \cup [op : {"consistency"}, stage : {"request"},
          arg : {[level |-> ""]}, bytes : {htons(k) : k \in ConsistencyCodes},
          res : {NoRead}]

\* response::write_consistency on an empty body
CallWriteConsistency ==
    /\ call.op = "consistency" /\ call.stage = "args"
    /\ call' = [call EXCEPT
                  !.bytes = write_consistency(response(0, RESULT), call.arg.level).body,
                  !.stage = "request"]

\* connection::read_consistency
CallReadConsistency ==
    /\ call.op = "consistency" /\ call.stage = "request"
    /\ \E o \in ReadOutcomes(read_consistency(call.bytes)) :
          call' = [call EXCEPT !.res = o, !.stage = "decoded"]

\* the string of a length: bytes that differ from place to place
StringOf(n) == [i \in 1..n |-> (96 + i) % 256]

\* the lengths of the strings written and read back
StringLengths == {0, 1, 2, 255, 256, 32766, 32767, 32768, 65535}

\* a string to write and read back; or the bytes a peer writes for a string of at
\* least 32767 bytes, with a byte after them, to read
StringArgs ==
    [op : {"string"}, stage : {"args"},
     arg : [kind : {"string", "long_string"}, len : StringLengths, tail : {<<>>}],
     bytes : {<<>>}, res : {NoRead}]
    \cup {[op |-> "string", stage |-> "request",
           arg |-> [kind |-> "string", len |-> n, tail |-> <<9>>],
           bytes |-> htons(n) \o StringOf(n) \o <<9>>, res |-> NoRead] :
             n \in {2, 32767, 32768, 65535}}

\* response::write_string or write_long_string on an empty body
CallWriteString ==
    /\ call.op = "string" /\ call.stage = "args"
    /\ LET str == StringOf(call.arg.len)
           r == response(0, RESULT)
       IN IF call.arg.kind = "string"
          THEN IF write_string_assert(str)
               THEN call' = [call EXCEPT !.bytes = write_string(r, str).body,
                                         !.stage = "request"]
               ELSE call' = [call EXCEPT !.res = Rd("abort", 0, <<>>),
                                         !.stage = "decoded"]
          ELSE IF write_long_string_assert(str)
               THEN call' = [call EXCEPT !.bytes = write_long_string(r, str).body,
                                         !.stage = "request"]
               ELSE call' = [call EXCEPT !.res = Rd("abort", 0, <<>>),
                                         !.stage = "decoded"]

\* connection::read_string or read_long_string
CallReadString ==
    /\ call.op = "string" /\ call.stage = "request"
    /\ \E o \in ReadOutcomes(read(call.arg.kind, call.bytes)) :
          call' = [call EXCEPT !.res = o, !.stage = "decoded"]

\* string maps to write and read back: sets of <<key, value>>, one pair a key
StringMaps ==
    {{}, {<<<<97>>, <<98>>>>}, {<<<<97>>, <<98>>>>, <<<<99>>, <<>>>>},
     {<<S_CQL_VERSION, S_3_0_0>>, <<S_COMPRESSION, S_snappy>>},
     {<<<<98>>, <<120>>>>, <<<<97>>, <<121>>>>, <<<<97, 98>>, <<122>>>>},
     {<<<<>>, <<1>>>>, <<<<0>>, <<2>>>>, <<<<255>>, <<2>>>>}}

StringMapArgs ==
    [op : {"string_map"}, stage : {"args"}, arg : {[map |-> m] : m \in StringMaps},
     bytes : {<<>>}, res : {NoRead}]

\* response::write_string_map on an empty body
CallWriteStringMap ==
    /\ call.op = "string_map" /\ call.stage = "args"
    /\ call' = [call EXCEPT
                  !.bytes = write_string_map(response(0, RESULT), call.arg.map).body,
                  !.stage = "request"]

\* connection::read_string_map on what write_string_map wrote
CallReadStringMap ==
    /\ call.op = "string_map" /\ call.stage = "request"
    /\ \E o \in ReadOutcomes(read_string_map(call.bytes)) :
          call' = [call EXCEPT !.res = o, !.stage = "decoded"]

\* the pairs a caller inserts into a std::multimap, in the order of the inserts
MultimapInserts ==
    {<<>>,
     <<<<<<97>>, <<49>>>>>>,
     <<<<<<98>>, <<49>>>>, <<<<97>>, <<50>>>>, <<<<98>>, <<51>>>>>>,
     <<<<<<98>>, <<51>>>>, <<<<97>>, <<50>>>>, <<<<98>>, <<49>>>>>>,
     <<<<<<97>>, <<120>>>>, <<<<97>>, <<120>>>>>>,
     <<<<<<122>>, <<>>>>, <<<<>>, <<122>>>>, <<<<97, 98>>, <<49>>>>, <<<<97>>, <<50>>>>>>,
     <<<<S_CQL_VERSION, S_3_0_0>>, <<S_CQL_VERSION, S_3_2_0>>,
       <<S_COMPRESSION, S_snappy>>>>,
     <<<<S_CQL_VERSION, S_3_2_0>>, <<S_COMPRESSION, S_snappy>>,
       <<S_CQL_VERSION, S_3_0_0>>>>}

MultimapArgs ==
    [op : {"multimap"}, stage : {"args"}, arg : {[inserts |-> l] : l \in MultimapInserts},
     bytes : {<<>>}, res : {NoRead}]

\* the std::multimap after the inserts
RECURSIVE multimap_of(_)
multimap_of(inserts) ==
    IF inserts = <<>> THEN <<>>
    ELSE multimap_insert(multimap_of(SubSeq(inserts, 1, Len(inserts) - 1)),
                         inserts[Len(inserts)])

\* response::write_string_multimap on an empty body
CallWriteStringMultimap ==
    /\ call.op = "multimap" /\ call.stage = "args"
    /\ call' = [call EXCEPT
                  !.bytes = write_string_multimap(response(0, SUPPORTED),
                                                  multimap_of(call.arg.inserts)).body,
                  !.stage = "encoded"]

\* the most write_* calls made on one response before it is finalized
MaxAppends == 2

\* the write_* members called on a response, each on one argument
AppendKinds ==
    {"int", "short", "string", "long_string", "string_list", "string_map",
     "consistency", "bytes", "short_bytes", "uuid"}

\* response::write_bytes and write_short_bytes
write_bytes(r, b) == [write_int(r, Len(b)) EXCEPT !.body = @ \o b]
write_short_bytes(r, b) == [write_short(r, Len(b)) EXCEPT !.body = @ \o b]

\* whether the write_* call returns: write_uuid is assert(0), the arguments of
\* the others pass their size assertions
append_assert(k) ==
    CASE k = "uuid" -> FALSE
      [] k = "string" -> write_string_assert(<<97, 98>>)
      [] k = "long_string" -> write_long_string_assert(<<120>>)
      [] OTHER -> TRUE

\* the write_* call on the response
append(r, k) ==
    CASE k = "int" -> write_int(r, 258)
      [] k = "short" -> write_short(r, -2)
      [] k = "string" -> write_string(r, <<97, 98>>)
      [] k = "long_string" -> write_long_string(r, <<120>>)
      [] k = "string_list" -> write_string_list(r, <<<<97>>, <<>>>>)
      [] k = "string_map" -> write_string_map(r, {<<<<98>>, <<49>>>>, <<<<97>>, <<50>>>>})
      [] k = "consistency" -> write_consistency(r, "QUORUM")
      [] k = "bytes" -> write_bytes(r, <<0, 255>>)
      [] k = "short_bytes" -> write_short_bytes(r, <<>>)
      [] OTHER -> r

\* a response constructed with a stream id and an opcode, the write_* calls to make
\* on it and the version to finalize it for
MessageArgs ==
    {[op |-> "message", stage |-> "args",
      arg |-> [v |-> v, stream |-> s, opcode |-> o, appends |-> l],
      bytes |-> <<>>, res |-> [r |-> response(s, o), n |-> 0]] :
        v \in Versions, s \in {1, -2}, o \in {RESULT, SUPPORTED},
        l \in UNION {[1..n -> AppendKinds] : n \in 0..MaxAppends}}

\* the next write_* call on the response
CallAppend ==
    /\ call.op = "message" /\ call.stage = "args"
    /\ call.res.n < Len(call.arg.appends)
    /\ LET k == call.arg.appends[call.res.n + 1]
       IN IF append_assert(k)
          THEN call' = [call EXCEPT !.res = [r |-> append(call.res.r, k),
                                             n |-> call.res.n + 1]]
          ELSE call' = [call EXCEPT !.stage = "aborted"]

\* response::make_message once every write_* call has been made
CallMakeMessage ==
    /\ call.op = "message" /\ call.stage = "args"
    /\ call.res.n = Len(call.arg.appends)
    /\ call' = [call EXCEPT !.bytes = make_message(call.arg.v, call.res.r),
                            !.stage = "encoded"]

CodecArgs ==
    HeaderArgs \cup ParseArgs \cup ReadArgs \cup ConsistencyArgs \cup StringArgs
    \cup StringMapArgs \cup MultimapArgs \cup MessageArgs

InitCodec ==
    /\ InitServerState
    /\ backlog = 0
    /\ quota = 0
    /\ menu = "server"
    /\ call \in CodecArgs
    /\ InitFlushQueue

server_vars == <<proc, accepting, pc, version, rbuf, reof, frame, wbuf, wire, logged,
                 hist, backlog, quota, menu>>

NextCodec ==
    \/ CallMakeFrame /\ UNCHANGED <<server_vars, flush_vars>>
    \/ ClearResponseBit /\ UNCHANGED <<server_vars, flush_vars>>
    \/ CallParseFrame /\ UNCHANGED <<server_vars, flush_vars>>
    \/ CallRead /\ UNCHANGED <<server_vars, flush_vars>>
    \/ CallWriteConsistency /\ UNCHANGED <<server_vars, flush_vars>>
    \/ CallReadConsistency /\ UNCHANGED <<server_vars, flush_vars>>
    \/ CallWriteString /\ UNCHANGED <<server_vars, flush_vars>>
    \/ CallReadString /\ UNCHANGED <<server_vars, flush_vars>>
    \/ CallWriteStringMap /\ UNCHANGED <<server_vars, flush_vars>>
    \/ CallReadStringMap /\ UNCHANGED <<server_vars, flush_vars>>
    \/ CallWriteStringMultimap /\ UNCHANGED <<server_vars, flush_vars>>
    \/ CallAppend /\ UNCHANGED <<server_vars, flush_vars>>
    \/ CallMakeMessage /\ UNCHANGED <<server_vars, flush_vars>>

\* every codec call, from every argument
SpecCodec == InitCodec /\ [][NextCodec]_vars

\* a header call that has been decoded, straight from make_frame or as a request
HeaderDecoded(direct) ==
    /\ call.op = "header" /\ call.stage = "decoded"
    /\ ValidStream(call.arg.v, call.arg.stream)
    /\ (call.bytes[1] >= 128) = direct

HeaderSize(v) == IF v \in {1, 2} THEN 8 ELSE 9

\* C12: frame_size() is 8 for the versions 1 and 2 and 9 for 3 and 4; make_frame
\* builds a header of that many bytes; parse_frame throws cql_frame_error exactly
\* when the buffer it is given has another size.
C12_HeaderSize ==
    /\ \A v \in Versions : frame_size(v) = HeaderSize(v)
    /\ (call.op = "header" /\ call.stage = "encoded") =>
          Len(call.bytes) = HeaderSize(call.arg.v)
    /\ (call.op = "parse" /\ call.stage = "decoded") =>
          (call.res.st = "cql_frame_error" <=> Len(call.bytes) # HeaderSize(call.arg.v))

\* C12 witness: a buffer of 9 bytes rejected on a version 2 connection
C12_Witness ==
    /\ call.op = "parse" /\ call.stage = "decoded"
    /\ call.arg.v = 2 /\ Len(call.bytes) = 9 /\ call.bytes[1] = 2
    /\ call.res.st = "cql_frame_error"

\* the opcode of the response the handler of a request opcode builds
ResponseOpcode(opcode) == IF opcode = OPTIONS THEN SUPPORTED ELSE READY

\* the header of a message as make_frame lays it out for the connection's version:
\* version | 0x80, flags 0, the stream and the length in network byte order
WellFormedResponse(c, msg, stream, opcode) ==
    /\ version[c] \in Versions
    /\ Len(msg) >= HeaderSize(version[c])
    /\ msg[1] = version[c] + 128 /\ msg[2] = 0
    /\ IF version[c] < 3
       THEN /\ msg[3] = stream % 256 /\ msg[4] = opcode
            /\ SubSeq(msg, 5, 8) = htonl(Len(msg) - 8)
       ELSE /\ msg[3] = (stream \div 256) % 256 /\ msg[4] = stream % 256
            /\ msg[5] = opcode
            /\ SubSeq(msg, 6, 9) = htonl(Len(msg) - 9)

\* C13: every response a connection has flushed or is writing is for a negotiated
\* version in 1..4 and has the version byte version | 0x80, flags 0, the opcode of
\* the response to its request, and the stream id and the length of its body in
\* network byte order.
C13_ResponseHeader ==
    \A c \in Conns :
        /\ \A i \in Entries(c) : \A k \in 1..Len(hist[c][i].out) :
              WellFormedResponse(c, hist[c][i].out[k], hist[c][i].f.stream,
                                 ResponseOpcode(hist[c][i].f.opcode))
        /\ Len(wire[c]) = Cardinality({<<i, k>> \in Entries(c) \X (1..1) :
                                          k <= Len(hist[c][i].out)})
        /\ \A k \in 1..Len(wbuf[c]) :
              /\ hist[c] # <<>>
              /\ LET e == hist[c][Len(hist[c])]
                 IN WellFormedResponse(c, wbuf[c][k], e.f.stream,
                                       ResponseOpcode(e.f.opcode))

\* C13 witness: two responses flushed on a version 4 connection, one of them on a
\* stream id of two bytes
C13_Witness ==
    \E c \in Conns :
        /\ version[c] = 4 /\ Len(wire[c]) = 2
        /\ \E k \in 1..2 : SubSeq(wire[c][k], 3, 4) = <<1, 2>>

\* what is left of the buffer after n bytes, when it has them
WireSkip(buf, n) == IF Len(buf) < n THEN WireFail ELSE WireOk(<<>>, Drop(buf, n))

\* a long string: a length of four bytes, unsigned, and as many bytes
WireLongString(buf) ==
    IF Len(buf) < 4 THEN WireFail
    ELSE LET n == Int32Of(buf[1], buf[2], buf[3], buf[4])
         IN IF n < 0 \/ n > Len(buf) - 4 THEN WireFail
            ELSE WireOk(SubSeq(buf, 5, 4 + n), Drop(buf, 4 + n))

\* a string map: a count and twice as many strings, keys and values in turn
WireStringMap(buf) ==
    LET n == WireShort(buf)
    IN IF ~n.ok THEN WireFail ELSE WireStrings(2 * n.val, n.rest)

\* the wire format's reading of a type at the front of a buffer: whether the buffer
\* holds a whole value, and what follows it
WireRead(reader, buf) ==
    CASE reader = "byte" -> WireSkip(buf, 1)
      [] reader = "short" -> WireSkip(buf, 2)
      [] reader = "int" -> WireSkip(buf, 4)
      [] reader = "long" -> WireSkip(buf, 8)
      [] reader = "string" -> WireString(buf)
      [] reader = "long_string" -> WireLongString(buf)
      [] OTHER -> WireStringMap(buf)

\* C14: a reader called on a buffer that does not hold a whole value fails with a
\* truncated-frame error (it neither crashes nor returns a value made of bytes past
\* the end); a reader that succeeds leaves the buffer just past the value.
C14_TruncatedReads ==
    (call.op = "read" /\ call.stage = "decoded") =>
        LET w == WireRead(call.arg.reader, call.bytes)
        IN /\ ~w.ok => call.res.st = "truncated"
           /\ call.res.st = "ok" => w.ok /\ call.res.rest = w.rest

\* the header the connection works on is the header of a frame a client sent
HeaderSent(c) ==
    \E f \in Menu :
        /\ frame[c].version = f.version /\ frame[c].flags = f.flags
        /\ frame[c].stream = f.stream /\ frame[c].opcode = f.opcode
        /\ frame[c].length = Len(f.body)

\* C15: every frame handed to a handler came with a body of exactly the length its
\* header announces; when the stream ends inside a body, the connection ends with
\* the read and no handler runs.
C15_WholeBody ==
    [][\A c \in Conns :
          (/\ pc[c] = "read_body" /\ HeaderSent(c)
           /\ pc'[c] # pc[c] /\ logged'[c] # "io error") =>
              IF Len(rbuf[c]) >= frame[c].length
              THEN \A i \in Entries(c)' : Complete(hist'[c][i])
              ELSE /\ hist'[c] = hist[c] /\ proc' = "running"
                   /\ pc'[c] \in {"failed", "done"} /\ wbuf'[c] = <<>>]_vars

\* C16: the eleven levels and the codes 0x0000 .. 0x000A correspond one to one, a
\* level written and read back is the same level, and reading any other code fails
\* with a decode error: it yields no level and does not end the process.
C16_ConsistencyBijection ==
    /\ \A l \in ConsistencyLevels :
          /\ consistency_to_wire(l) \in 0..10
          /\ wire_to_consistency(consistency_to_wire(l)).val = l
    /\ \A k \in 0..10 :
          /\ wire_to_consistency(k).st = "ok"
          /\ wire_to_consistency(k).val \in ConsistencyLevels
          /\ consistency_to_wire(wire_to_consistency(k).val) = k
    /\ Cardinality(ConsistencyLevels) = 11
    /\ (call.op = "consistency" /\ call.stage = "decoded") =>
          IF call.arg.level # ""
          THEN call.res.st = "ok" /\ call.res.val = call.arg.level
          ELSE IF call.bytes[1] = 0 /\ call.bytes[2] <= 10
          THEN call.res.st = "ok" /\ call.res.val \in ConsistencyLevels
          ELSE call.res.st = "decode_error"

\* C17: a string of fewer than 2^16 bytes written by write_string and read by
\* read_string comes back the same, with the buffer left just past it, and so does
\* one written by write_long_string and read by read_long_string; a string of 32767
\* bytes or more is neither refused by the writer nor read with a negative length.
C17_StringRoundTrip ==
    (call.op = "string" /\ call.stage = "decoded") =>
        /\ call.res.st = "ok"
        /\ call.res.val = StringOf(call.arg.len)
        /\ call.res.rest = call.arg.tail

\* the mapping a sequence k1, v1, k2, v2, ... stands for when a later pair replaces
\* an earlier one of the same key
LastWins(l) ==
    {<<l[2 * i - 1], l[2 * i]>> : i \in {j \in 1..(Len(l) \div 2) :
        \A k \in (j + 1)..(Len(l) \div 2) : l[2 * k - 1] # l[2 * j - 1]}}

\* C18: read_string_map gives back the map write_string_map wrote; on the bytes of
\* a whole string map it yields, for each key, the value of the key's last pair.
C18_StringMapLastWins ==
    /\ (call.op = "string_map" /\ call.stage = "decoded") =>
          call.res.st = "ok" /\ call.res.val = call.arg.map /\ call.res.rest = <<>>
    /\ (/\ call.op = "read" /\ call.arg.reader = "string_map"
        /\ call.stage = "decoded" /\ WireStringMap(call.bytes).ok) =>
          call.res.st = "ok" /\ call.res.val = LastWins(WireStringMap(call.bytes).val)

\* the values inserted under a key, in the order of the inserts
InsertedValues(inserts, key) ==
    LET IsKey(p) == p[1] = key
        ps == SelectSeq(inserts, IsKey)
    IN [i \in 1..Len(ps) |-> ps[i][2]]

\* the keys inserted, each once, in the order of their first inserts
FirstSeenKeys(inserts) ==
    LET IsFirst(i) == \A j \in 1..(i - 1) : inserts[j][1] # inserts[i][1]
        F[i \in 0..Len(inserts)] ==
            IF i = 0 THEN <<>>
            ELSE IF IsFirst(i) THEN Append(F[i - 1], inserts[i][1]) ELSE F[i - 1]
    IN F[Len(inserts)]

\* a multimap call has been written
MultimapWritten == call.op = "multimap" /\ call.stage = "encoded"

\* C19: the bytes of write_string_multimap are a string multimap and nothing more:
\* one entry for each distinct key inserted, and with each key the list of exactly
\* the values inserted under it, in the order of their inserts.
C19_MultimapRoundTrip ==
    MultimapWritten =>
        LET w == WireMultimap(call.bytes)
            ins == call.arg.inserts
        IN /\ w.ok /\ w.rest = <<>>
           /\ Len(w.val) = Cardinality({ins[i][1] : i \in 1..Len(ins)})
           /\ {w.val[i][1] : i \in 1..Len(w.val)} = {ins[i][1] : i \in 1..Len(ins)}
           /\ \A i \in 1..Len(w.val) : w.val[i][2] = InsertedValues(ins, w.val[i][1])

\* C19 witness: a key inserted twice with another key between, written out with
\* both its values
C19_Witness ==
    /\ MultimapWritten
    /\ call.arg.inserts = <<<<<<98>>, <<51>>>>, <<<<97>>, <<50>>>>, <<<<98>>, <<49>>>>>>
    /\ \E i \in 1..2 : WireMultimap(call.bytes).val[i] = <<<<98>>, <<<<51>>, <<49>>>>>>

\* C20 as claimed: write_string_multimap writes the keys in the order in which
\* each was first inserted.
C20_KeysFirstSeen ==
    MultimapWritten =>
        LET w == WireMultimap(call.bytes)
        IN [i \in 1..Len(w.val) |-> w.val[i][1]] = FirstSeenKeys(call.arg.inserts)

\* C20 amended: write_string_multimap writes the keys in ascending order of their
\* bytes, whatever the order of the inserts.
C20_KeysAscending ==
    MultimapWritten =>
        LET w == WireMultimap(call.bytes)
        IN \A i \in 1..(Len(w.val) - 1) : StrLess(w.val[i][1], w.val[i + 1][1])

\* C20 witness: CQL_VERSION inserted before COMPRESSION and written after it
C20_Witness ==
    /\ MultimapWritten
    /\ call.arg.inserts = <<<<S_CQL_VERSION, S_3_0_0>>, <<S_CQL_VERSION, S_3_2_0>>,
                            <<S_COMPRESSION, S_snappy>>>>
    /\ Len(WireMultimap(call.bytes).val) = 2
    /\ WireMultimap(call.bytes).val[1][1] = S_COMPRESSION
    /\ WireMultimap(call.bytes).val[2][1] = S_CQL_VERSION

(***************************************************************************)
(* The connection's life: its first byte, its headers, its end.            *)
(***************************************************************************)
\* C21: when the first byte of a connection is not in 1..4 the task fails there:
\* it does not go on to read the rest of the header, no handler runs, nothing is
\* written; and no connection is past its first byte with another version.
C21_BadFirstByte ==
    [][\A c \in Conns :
          /\ (/\ pc[c] = "read_version" /\ rbuf[c] # <<>> /\ rbuf[c][1] \notin 1..4
              /\ pc'[c] # pc[c]) =>
                /\ pc'[c] = "failed"
                /\ logged'[c] \in {"bad_cql_protocol_version", "io error"}
                /\ wire'[c] = wire[c] /\ wbuf'[c] = <<>> /\ hist'[c] = hist[c]
                /\ proc' = "running"
          /\ pc'[c] \in Live \ {"read_version"} => version'[c] \in 1..4
          /\ (pc[c] = "failed" /\ version[c] \notin 1..4) =>
                pc'[c] = "failed" /\ wire'[c] = <<>> /\ hist'[c] = <<>>]_vars

\* C21 witness: a connection that failed on the first byte 5 with more bytes behind
\* it, and wrote nothing
C21_Witness ==
    \E c \in Conns :
        /\ pc[c] = "failed" /\ version[c] = 5
        /\ logged[c] = "bad_cql_protocol_version" /\ wire[c] = <<>> /\ hist[c] = <<>>

\* C22: the accept loop never stops: after every step an accept is outstanding, and
\* a step that accepts a socket starts the connection's task and leaves the next
\* accept outstanding, whatever the connections before it are doing.
C22_AcceptPerpetual ==
    [][/\ accepting'
       /\ \A c \in Conns :
             (pc[c] = "none" /\ pc'[c] # "none") =>
                /\ pc'[c] = "read_version"
                /\ \A d \in Conns \ {c} : pc'[d] = pc[d]]_vars

\* the bytes each write_* call of the codec's messages adds to the body
AppendedEncoding(k) ==
    CASE k = "int" -> <<0, 0, 1, 2>>
      [] k = "short" -> <<255, 254>>
      [] k = "string" -> <<0, 2, 97, 98>>
      [] k = "long_string" -> <<0, 0, 0, 1, 120>>
      [] k = "string_list" -> <<0, 2, 0, 1, 97, 0, 0>>
      [] k = "string_map" -> <<0, 2, 0, 1, 97, 0, 1, 50, 0, 1, 98, 0, 1, 49>>
      [] k = "consistency" -> <<0, 4>>
      [] k = "bytes" -> <<0, 0, 0, 2, 0, 255>>
      [] k = "short_bytes" -> <<0, 0>>

RECURSIVE AppendedBody(_)
AppendedBody(l) ==
    IF l = <<>> THEN <<>>
    ELSE AppendedBody(SubSeq(l, 1, Len(l) - 1)) \o AppendedEncoding(l[Len(l)])

\* C23: a finalized response is the header of the version followed by the body: the
\* length field counts the body's bytes, the body is the encodings of the write_*
\* calls in the order they were made, the stream id and the opcode are those the
\* response was constructed with.
C23_MessageLayout ==
    (call.op = "message" /\ call.stage = "encoded") =>
        LET v == call.arg.v
            h == HeaderSize(v)
            body == AppendedBody(call.arg.appends)
            s == call.arg.stream % 65536
            streamField == IF v < 3 THEN <<s % 256>> ELSE <<s \div 256, s % 256>>
        IN /\ call.res.n = Len(call.arg.appends)
           /\ Len(call.bytes) = h + Len(body)
           /\ Drop(call.bytes, h) = body
           /\ Take(call.bytes, h) =
                 <<128 + v, 0>> \o streamField \o <<call.arg.opcode>>
                 \o <<0, 0, 0, Len(body)>>

\* C23 witness: a version 3 response on stream -2 finalized after write_string and
\* write_int
C23_Witness ==
    /\ call.op = "message" /\ call.stage = "encoded"
    /\ call.arg.appends = <<"string", "int">>
    /\ call.bytes = <<131, 0, 255, 254, RESULT, 0, 0, 0, 8, 0, 2, 97, 98, 0, 0, 1, 2>>

\* C24: a task ends normally only at end of stream.  When the stream has ended at a
\* frame boundary the read that finds it ends the task without an error, without
\* a write and without a handler; a task whose stream is open stops only by a
\* fatal error, and after a response is flushed it reads the next header.
C24_EofEndsLoop ==
    [][\A c \in Conns :
          /\ (/\ pc[c] \in {"read_version", "read_header"}
              /\ rbuf[c] = <<>> /\ reof[c] /\ pc'[c] # pc[c]) =>
                \/ /\ pc'[c] = "done" /\ logged'[c] = ""
                   /\ wire'[c] = wire[c] /\ wbuf'[c] = <<>> /\ hist'[c] = hist[c]
                   /\ proc' = "running"
                \/ pc'[c] = "failed" /\ logged'[c] = "io error"
          /\ (pc[c] # "done" /\ pc'[c] = "done") =>
                /\ reof[c] /\ rbuf[c] = <<>> /\ wbuf[c] = <<>>
                /\ pc[c] \in {"read_version", "read_header"}
          /\ (pc[c] \in Live /\ ~reof[c] /\ pc'[c] \notin Live) =>
                pc'[c] \in {"failed", "aborted"}
          /\ (pc[c] = "flush" /\ pc'[c] \in Live /\ pc'[c] # "flush") =>
                pc'[c] = "read_header"]_vars

\* C24 witness: a task that ended normally after it answered a frame
C24_Witness ==
    \E c \in Conns :
        /\ pc[c] = "done" /\ logged[c] = "" /\ reof[c]
        /\ Len(hist[c]) = 1 /\ Len(wire[c]) = 1

\* C29: a header cut short by the end of the stream is never parsed: the read that
\* gets fewer bytes than the header has, on the first frame or a later one, fails
\* the task with a frame error, and no frame and no handler come of it.
C29_CutHeaderNotParsed ==
    [][\A c \in Conns :
          (/\ reof[c] /\ pc'[c] # pc[c]
           /\ \/ pc[c] = "read_tail" /\ Len(rbuf[c]) < frame_size(version[c]) - 1
              \/ /\ pc[c] = "read_header"
                 /\ rbuf[c] # <<>> /\ Len(rbuf[c]) < frame_size(version[c])) =>
             /\ pc'[c] = "failed"
             /\ logged'[c] \in {"cql_frame_error", "io error"}
             /\ frame'[c] = NoFrame
             /\ hist'[c] = hist[c]]_vars

(***************************************************************************)
(* utils::flush_queue.  An operation is func() followed by post(); each    *)
(* continuation of the code is one action, so that funcs, posts, promises  *)
(* and waiters complete in every order the reactor can run them in.        *)
(***************************************************************************)
\* no assertion has ended the process
Running == asserted = "none"

\* a promise<> made for the entry of key k, the one put there by std::exchange
NewPromise(k) == <<k, Len(promises[k]) + 1>>
MakePromise(k) == [promises EXCEPT ![k] = Append(@, FALSE)]

\* promise::set_value() and whether it was called
SetValue(p) == [promises EXCEPT ![p[1]][p[2]] = TRUE]
IsSet(p) == promises[p[1]][p[2]]

\* _map.begin() and _map.rbegin(): the lowest and the highest key of the map
map_begin == CHOOSE k \in DOMAIN map : \A j \in DOMAIN map : k <= j
map_rbegin == CHOOSE k \in DOMAIN map : \A j \in DOMAIN map : j <= k

\* fault-injection variant of IsBegin: every entry passes for the first
IsBeginAny(k) == k \in DOMAIN map

\* i == _map.begin(), for the iterator i of the entry of key k
IsBegin(k) == k \in DOMAIN map /\ k = map_begin

\* _map.emplace(std::make_pair(rp, promise<>())), the promise being number p
emplace(m, rp, p) == [k \in DOMAIN m \cup {rp} |-> IF k = rp THEN p ELSE m[k]]

\* fault-injection variant of erase: the entry stays
EraseNothing(m, i) == m

\* _map.erase(i)
erase(m, i) == [k \in DOMAIN m \ {i} |-> m[k]]

\* fault-injection variant of gate_enter: a closed gate lets callers in
GateEnterClosed(g) == TRUE

\* seastar::gate::enter() returns; it throws gate_closed_exception on a closed gate
gate_enter(g) == ~g.closed

\* seastar::gate::leave(): the last to leave a closed gate resolves close()'s future
gate_leave(g) ==
    [g EXCEPT !.count = @ - 1,
              !.stopped = IF g.closed /\ g.count = 1 THEN "resolved" ELSE @]

\* fault-injection variant of call_helper: post is applied to a failed future too
CallHelperAlways(f) == TRUE

\* call_helper applies post: f.get() returned; otherwise the exception of func is
\* made the result and post is not called
call_helper(f) == f = "value"

\* what the future returned by run_with_ordered_post_op resolves to
Result(o) ==
    IF o.f = "exception" THEN "func_exception"
    ELSE IF o.post = "exception" THEN "post_exception"
    ELSE "value"

\* run_with_ordered_post_op up to the call of func: the assertions on the key,
\* the gate, the new entry.  Callers start operations with increasing keys.
run_with_ordered_post_op(rp) ==
    /\ Running /\ \A j \in Keys : j >= rp => ops[j].st = "idle"
    /\ IF rp \in DOMAIN map \/ (DOMAIN map # {} /\ ~(map_rbegin < rp)) THEN
           /\ asserted' = "_map.empty() || _map.rbegin()->first < rp"
           /\ UNCHANGED <<map, gate, promises, ops>>
       ELSE IF ~gate_enter(gate) THEN
           /\ ops' = [ops EXCEPT ![rp].st = "done", ![rp].result = "gate_closed"]
           /\ UNCHANGED <<map, gate, promises, asserted>>
       ELSE
           /\ gate' = [gate EXCEPT !.count = @ + 1]
           /\ promises' = MakePromise(rp)
           /\ map' = emplace(map, rp, NewPromise(rp))
           /\ ops' = [ops EXCEPT ![rp].st = "func", ![rp].entered = @ + 1]
           /\ UNCHANGED asserted
    /\ UNCHANGED <<server_vars, call, waiters>>

\* the lambda run_post, for the operation of key k whose func ended as f
run_post(k, f) ==
    IF ~IsBegin(k) THEN
        /\ asserted' = "i == _map.begin()"
        /\ UNCHANGED ops
    ELSE
        /\ ops' = [ops EXCEPT ![k].f = f, ![k].waits_on = NoPromise,
                              ![k].st = IF call_helper(f) THEN "post" ELSE "finally",
                              ![k].post = IF call_helper(f) THEN "running" ELSE "none"]
        /\ UNCHANGED asserted

\* the highest key of the map below k: the entry --i points to
Predecessor(k) ==
    CHOOSE j \in DOMAIN map : j < k /\ \A l \in DOMAIN map : l < k => l <= j

\* func completes with a value or an exception: the then_wrapped continuation
FuncDone(k, f) ==
    /\ Running /\ ops[k].st = "func"
    /\ IF k \notin DOMAIN map THEN
           /\ asserted' = "i != _map.end()"
           /\ UNCHANGED <<map, promises, ops>>
       ELSE IF IsBegin(k) THEN
           /\ run_post(k, f)
           /\ UNCHANGED <<map, promises>>
       ELSE
           LET i == Predecessor(k)
           IN /\ promises' = MakePromise(i)
              /\ map' = [map EXCEPT ![i] = NewPromise(i)]
              /\ ops' = [ops EXCEPT ![k].f = f, ![k].st = "wait",
                                    ![k].waits_on = NewPromise(i),
                                    ![k].pr = map[i]]
              /\ UNCHANGED asserted
    /\ UNCHANGED <<server_vars, call, gate, waiters>>

\* the promise the operation waits on has been set: run_post runs
Wake(k) ==
    /\ Running /\ ops[k].st = "wait" /\ IsSet(ops[k].waits_on)
    /\ run_post(k, ops[k].f)
    /\ UNCHANGED <<server_vars, call, map, gate, promises, waiters>>

\* post completes with a value or an exception
PostDone(k, r) ==
    /\ Running /\ ops[k].st = "post"
    /\ ops' = [ops EXCEPT ![k].post = r, ![k].st = "finally"]
    /\ UNCHANGED <<server_vars, call, map, gate, promises, waiters, asserted>>

\* the finally of run_post: the entry's promise is taken, the entry erased, the
\* gate left, the promise set
Finally(k) ==
    /\ Running /\ ops[k].st = "finally" /\ k \in DOMAIN map
    /\ IF ~IsBegin(k) THEN
           /\ asserted' = "i == _map.begin()"
           /\ UNCHANGED <<map, gate, promises, ops>>
       ELSE
           /\ map' = erase(map, k)
           /\ gate' = gate_leave(gate)
           /\ promises' = SetValue(map[k])
           /\ ops' = [ops EXCEPT
                        ![k].erased = @ + 1, ![k].left = @ + 1,
                        ![k].st = IF ops[k].pr = NoPromise THEN "done" ELSE "outer",
                        ![k].result = IF ops[k].pr = NoPromise THEN Result(ops[k])
                                      ELSE @]
           /\ UNCHANGED asserted
    /\ UNCHANGED <<server_vars, call, waiters>>

\* the finally of an operation that waited: the promise it took from the entry
\* before it is set, and the operation's future resolves
OuterFinally(k) ==
    /\ Running /\ ops[k].st = "outer"
    /\ promises' = SetValue(ops[k].pr)
    /\ ops' = [ops EXCEPT ![k].st = "done", ![k].pr = NoPromise,
                          ![k].result = Result(ops[k])]
    /\ UNCHANGED <<server_vars, call, map, gate, waiters, asserted>>

\* fault-injection variant of upper_bound_prev: keys below rp only
LowerBoundPrev(rp) ==
    IF \E k \in DOMAIN map : k < rp
    THEN CHOOSE k \in DOMAIN map : k < rp /\ \A j \in DOMAIN map : j < rp => j <= k
    ELSE 0

\* reverse_iterator(_map.upper_bound(rp)): the entry of the highest key that is
\* not above rp, 0 for rend()
upper_bound_prev(rp) ==
    IF \E k \in DOMAIN map : k <= rp
    THEN CHOOSE k \in DOMAIN map : k <= rp /\ \A j \in DOMAIN map : j <= rp => j <= k
    ELSE 0

\* wait_for_pending(reverse_iterator i), called by w for the keys up to rp
wait_for_pending(w, i, rp) ==
    /\ Running /\ waiters[w].st = "idle"
    /\ \A v \in Waiters : v < w => waiters[v].st # "idle"
    /\ IF i = 0 THEN
           /\ waiters' = [waiters EXCEPT ![w].st = "resolved",
                                         ![w].active = {k \in DOMAIN map : k <= rp}]
           /\ UNCHANGED <<map, promises>>
       ELSE
           /\ promises' = MakePromise(i)
           /\ map' = [map EXCEPT ![i] = NewPromise(i)]
           /\ waiters' = [waiters EXCEPT
                            ![w] = [st |-> "waiting",
                                    waits_on |-> NewPromise(i), pr |-> map[i],
                                    active |-> {k \in DOMAIN map : k <= rp}]]
    /\ UNCHANGED <<server_vars, call, gate, ops, asserted>>

\* wait_for_pending(): from _map.rbegin()
WaitForPendingAll(w) ==
    wait_for_pending(w, IF DOMAIN map = {} THEN 0 ELSE map_rbegin, MaxKey + 1)

\* wait_for_pending(T rp)
WaitForPending(w, rp) == wait_for_pending(w, upper_bound_prev(rp), rp)

\* fault-injection variant of WaiterWake: the promise the waiter took is dropped
WaiterWakeNoSet(w) ==
    /\ Running /\ waiters[w].st = "waiting" /\ IsSet(waiters[w].waits_on)
    /\ waiters' = [waiters EXCEPT ![w] = [NoWaiter EXCEPT !.st = "resolved"]]
    /\ UNCHANGED <<server_vars, call, map, gate, promises, ops, asserted>>

\* the promise the waiter waits on has been set: it sets the one it took
WaiterWake(w) ==
    /\ Running /\ waiters[w].st = "waiting" /\ IsSet(waiters[w].waits_on)
    /\ promises' = SetValue(waiters[w].pr)
    /\ waiters' = [waiters EXCEPT ![w] = [NoWaiter EXCEPT !.st = "resolved"]]
    /\ UNCHANGED <<server_vars, call, map, gate, ops, asserted>>

\* close(): _gate.close()
close ==
    /\ Running /\ ~gate.closed
    /\ gate' = [gate EXCEPT !.closed = TRUE,
                            !.stopped = IF gate.count = 0 THEN "resolved" ELSE "pending",
                            !.admitted = {k \in Keys : ops[k].entered > 0}]
    /\ UNCHANGED <<server_vars, call, map, promises, ops, waiters, asserted>>

\* check_open_gate(): enter and leave, or gate_closed_exception
check_open_gate ==
    /\ Running
    /\ gate' = [gate EXCEPT !.check = IF gate_enter(gate) THEN "open" ELSE "gate_closed"]
    /\ gate' # gate
    /\ UNCHANGED <<server_vars, call, map, promises, ops, waiters, asserted>>

InitFlush ==
    /\ InitServerState
    /\ backlog = 0
    /\ quota = 0
    /\ menu = "server"
    /\ call = NoCall
    /\ InitFlushQueue

NextFlush ==
    \/ \E k \in Keys : run_with_ordered_post_op(k)
    \/ \E k \in Keys : \E f \in {"value", "exception"} : FuncDone(k, f)
    \/ \E k \in Keys : Wake(k)
    \/ \E k \in Keys : \E r \in {"value", "exception"} : PostDone(k, r)
    \/ \E k \in Keys : Finally(k)
    \/ \E k \in Keys : OuterFinally(k)
    \/ \E w \in Waiters : WaitForPendingAll(w)
    \/ \E w \in Waiters : \E rp \in 0..MaxKey : WaitForPending(w, rp)
    \/ \E w \in Waiters : WaiterWake(w)
    \/ close
    \/ check_open_gate

\* one flush_queue, its operations, waiters and close in every order
SpecFlush == InitFlush /\ [][NextFlush]_vars

\* the same with every func and post completing in the end and the reactor
\* running every continuation that is due
SpecFlushFair ==
    /\ InitFlush /\ [][NextFlush]_vars
    /\ \A k \in Keys :
          /\ WF_vars(\E f \in {"value", "exception"} : FuncDone(k, f))
          /\ WF_vars(\E r \in {"value", "exception"} : PostDone(k, r))
          /\ WF_vars(Wake(k)) /\ WF_vars(Finally(k)) /\ WF_vars(OuterFinally(k))
    /\ \A w \in Waiters : WF_vars(WaiterWake(w))

(***************************************************************************)
(* The flush_queue's order, failures, waiters and close.                   *)
(***************************************************************************)
\* nothing of the operation of key j is left to run: it never started, was turned
\* away, or its func and post are over and its entry erased
Over(j) == j \notin DOMAIN map /\ ops[j].st \in {"idle", "done", "outer"}

\* func and post of the operation are over and its entry is erased
Completed(k) ==
    /\ k \notin DOMAIN map /\ ops[k].st \in {"done", "outer"}
    /\ ops[k].f # "none" /\ ops[k].post # "running"

\* a continuation can run: a func or a post is under way, a finally is due, or a
\* promise someone waits on has been set
Runnable ==
    \/ \E k \in Keys : ops[k].st \in {"func", "post", "finally", "outer"}
    \/ \E k \in Keys : ops[k].st = "wait" /\ IsSet(ops[k].waits_on)
    \/ \E w \in Waiters : waiters[w].st = "waiting" /\ IsSet(waiters[w].waits_on)

\* C25: the post of the operation of key k has started only if the func and the
\* post of every operation of a lower key are over; one post runs at a time.
C25_PostOrdered ==
    /\ \A k \in Keys : ops[k].post # "none" => \A j \in Keys : j < k => Over(j)
    /\ \A k, j \in Keys : (ops[k].post = "running" /\ ops[j].post = "running") => k = j

\* C25 witness: func of key 2 ended before key 1 was over, and its post runs after
C25_Witness ==
    /\ ops[2].post = "running" /\ ops[2].pr # NoPromise
    /\ ops[1].st = "done" /\ ops[1].post = "value"

\* C26: when func fails post is not run and the operation's future holds func's
\* exception; the entry is erased once, after the lower keys are over; and when
\* nothing is left to run the operations of higher keys are done, with their
\* posts run where their funcs succeeded.
C26_FuncFailure ==
    \A k \in Keys :
        ops[k].f = "exception" =>
            /\ ops[k].post = "none"
            /\ ops[k].st = "done" => ops[k].result = "func_exception"
            /\ ops[k].st \in {"done", "outer"} =>
                  /\ ops[k].erased = 1 /\ k \notin DOMAIN map
                  /\ \A j \in Keys : j < k => Over(j)
            /\ ~Runnable =>
                  \A j \in Keys :
                      j > k => /\ ops[j].st \in {"idle", "done"}
                               /\ ops[j].f = "value" => ops[j].post \in {"value", "exception"}

\* C26 witness: func of key 1 failed, key 2 waited for it and ran its post
C26_Witness ==
    /\ ops[1].st = "done" /\ ops[1].result = "func_exception" /\ ops[1].post = "none"
    /\ ops[2].st = "done" /\ ops[2].result = "value" /\ Len(promises[1]) = 2

\* C27: a wait_for_pending call resolves only when every operation that was in the
\* map at the call, with a key up to rp, is completed; it waits only if there is
\* such an operation; and when nothing is left to run no caller still waits.
C27_WaitForPending ==
    [][\A w \in Waiters :
          /\ (waiters[w].st # "resolved" /\ waiters'[w].st = "resolved") =>
                /\ \A k \in waiters[w].active : Completed(k)'
                /\ \A k \in waiters'[w].active : Completed(k)'
          /\ (waiters[w].st = "idle" /\ waiters'[w].st = "waiting") =>
                waiters'[w].active # {}
          /\ ~Runnable' => waiters'[w].st # "waiting"]_vars

\* C27 witness: both callers waited on the entry of key 2 and both have resolved
C27_Witness ==
    /\ \A w \in Waiters : waiters[w].st = "resolved"
    /\ Len(promises[2]) = 3 /\ \A n \in 1..3 : promises[2][n]
    /\ ops[2].st = "done"

\* C28: the future of close() is resolved only when every operation that entered
\* before the close has completed and left the gate; once close() is called no
\* operation enters: run_with_ordered_post_op and check_open_gate fail.
C28_Close ==
    [][/\ gate'.stopped = "resolved" =>
             \A k \in gate'.admitted : Completed(k)' /\ ops'[k].left = 1
       /\ gate'.stopped = "resolved" => gate'.closed /\ gate'.count = 0
       /\ gate.closed =>
             /\ \A k \in Keys :
                   (ops[k].st = "idle" /\ ops'[k].st # "idle") =>
                      /\ ops'[k].st = "done" /\ ops'[k].result = "gate_closed"
                      /\ ops'[k].entered = 0
             /\ DOMAIN map' \subseteq DOMAIN map
             /\ gate'.count <= gate.count
             /\ gate'.check # gate.check => gate'.check = "gate_closed"]_vars

\* C28 witness: close() is pending on the post of key 1, key 2 has been turned away
C28_Witness ==
    /\ gate.closed /\ gate.stopped = "pending" /\ gate.admitted = {1}
    /\ ops[1].post = "running"
    /\ ops[2].result = "gate_closed" /\ gate.check = "gate_closed"

\* C30: an operation's entry is in the map from its start until its finally has
\* run, and is erased once; the entry erased is the lowest key of the map; no
\* assertion fails; the gate is entered and left once an operation; when every
\* operation is over the map is empty.
C30_MapDiscipline ==
    [][/\ \A k \in Keys :
             /\ (k \in DOMAIN map' <=> ops'[k].st \in {"func", "wait", "post", "finally"})
             /\ ops'[k].erased <= 1 /\ ops'[k].entered <= 1 /\ ops'[k].left <= 1
             /\ ops'[k].entered = (IF ops'[k].result = "gate_closed" \/ ops'[k].st = "idle"
                                   THEN 0 ELSE 1)
             /\ ops'[k].erased = (IF ops'[k].st \in {"done", "outer"}
                                     /\ ops'[k].result # "gate_closed" THEN 1 ELSE 0)
             /\ ops'[k].left = ops'[k].erased
             /\ ops'[k].erased > ops[k].erased =>
                   /\ k \in DOMAIN map /\ k \notin DOMAIN map'
                   /\ \A j \in DOMAIN map : k <= j
       /\ asserted' = "none"
       /\ gate'.count = Cardinality(DOMAIN map')
       /\ (\A k \in Keys : ops'[k].st \in {"idle", "done", "outer"}) => map' = <<>>]_vars

\* C30 witness: both operations are done, key 2 and a caller of wait_for_pending
\* having waited on the entry of key 1, and the map is empty
C30_Witness ==
    /\ \A k \in Keys : ops[k].st = "done" /\ ops[k].erased = 1 /\ ops[k].left = 1
    /\ Len(promises[1]) = 3 /\ map = <<>> /\ gate.count = 0

\* C31: when every func and post completes in the end, the future returned by
\* every run_with_ordered_post_op call resolves in the end, and so does that of
\* every wait_for_pending call: the promises handed from an entry to those who
\* wait on it leave nobody blocked for ever.
C31_EveryFutureResolves ==
    /\ \A k \in Keys : (ops[k].st # "idle") ~> (ops[k].st = "done")
    /\ \A w \in Waiters : (waiters[w].st = "waiting") ~> (waiters[w].st = "resolved")

\* C31 witness: key 2 and then a caller of wait_for_pending took the promise of
\* the entry of key 1; key 1 is over, the caller is woken and key 2 is resolved
C31_Witness ==
    /\ ops[1].st = "done" /\ ops[2].st = "done" /\ ops[2].result = "value"
    /\ Len(promises[1]) = 3 /\ \A n \in 1..3 : promises[1][n]
    /\ waiters[1].st = "resolved"

=============================================================================
